---- MODULE Spec2Model ----
(***************************************************************************)
(* Host-side sandbox lifecycle of hyperlight-wasm (ProtoWasmSandbox ->     *)
(* WasmSandbox -> LoadedWasmSandbox -> WasmSandbox) together with the      *)
(* guest-side wasm_runtime entry points it drives.                         *)
(*                                                                         *)
(* The hypervisor-backed MultiUseSandbox (crate hyperlight_host) is not    *)
(* part of the sources; its operations, named MUS_..., follow the          *)
(* documented contract: poisoning, snapshot/restore, interrupt handle.     *)
(***************************************************************************)
EXTENDS Integers, Sequences, FiniteSets, TLC

(* ------------------------------ bounds -------------------------------- *)
\* number of snapshots the caller keeps at once
MaxSnaps == 1
\* abstract linear-memory contents range over 0..MaxMem
MaxMem == 1
\* iterations a KeepCPUBusy call needs to run to completion
BusySteps == 1

(* --------------------------- program constants ------------------------ *)
\* AOT modules offered to the load operations; "Corrupt" does not deserialize
Modules == {"RunWasm", "HelloWorld", "Corrupt"}
ValidModules == {"RunWasm", "HelloWorld"}
\* HostFunction.aot deserializes and imports a host function from "env"
ImportingModules == {"HostFunction"}
Imports(m) ==
    IF m = "HostFunction" THEN {"HostFuncWithBufferAndLength"} ELSE {}

\* exported functions of the sample modules used by the tests
Exports(m) ==
    IF m = "RunWasm" THEN {"CalcFib", "Echo", "KeepCPUBusy", "Abort"}
    ELSE IF m = "HelloWorld" THEN {"HelloWorld"}
    ELSE {}

FnNames == {"CalcFib", "Echo", "KeepCPUBusy", "Abort", "HelloWorld"}
\* functions whose result depends on the argument only
PureFns == {"CalcFib", "HelloWorld"}
\* arguments the caller passes: CalcFib is tried on two inputs
FnArgs == {4, 10}
ArgsOf(fn) == IF fn = "CalcFib" THEN FnArgs ELSE {4}

RECURSIVE Fib(_)
Fib(n) == IF n < 2 THEN n ELSE Fib(n - 1) + Fib(n - 2)

\* value a function returns when it runs to completion
FnResult(fn, arg) ==
    IF fn = "CalcFib" THEN Fib(arg)
    ELSE IF fn = "Echo" THEN arg
    ELSE 0

(* ---------------------------- SandboxBuilder -------------------------- *)
\* the floors of the guest stack, input buffer and heap sizes, in bytes
MIN_STACK_SIZE == 65536
MIN_INPUT_DATA_SIZE == 196608
MIN_HEAP_SIZE == 1048576
MIN_GUEST_ERROR_BUFFER_SIZE == 1024
\* the stack size of a default SandboxConfiguration (hyperlight_host)
DEFAULT_STACK_SIZE == MIN_STACK_SIZE

(* ------------------------- platform address space --------------------- *)
\* Guest virtual addresses are u64; they are modelled AddrBits wide, with the
\* allocator's base and stride at 2^StrideBits (0x100_0000_0000), the mapped
\* module image at 2^ImageBits (0x1_0000_0000) and pages of 2^PageBits bytes
AddrBits == 6
StrideBits == 4
ImageBits == 2
PageBits == 1
\* wasmtime_mmap_new calls followed in one guest
MaxMmaps == 5
\* parameters of a declared host function
MaxParams == 3
\* Loaded sandboxes created in one run
MaxLoads == 3

(* ---------------------------- host functions -------------------------- *)
\* wire types of parameters and return values
ParameterTypes ==
    {"Int", "UInt", "Long", "ULong", "Bool", "Float", "Double", "String", "VecBytes"}

\* host functions a caller registers: the test's buffer-and-length function
\* and one whose buffer is followed by something other than its length
HostFns == {"HostFuncWithBufferAndLength", "HostFuncWithBufferAndName"}

\* the descriptor recorded for a registered name: parameter types, return type
HostFunctionDefinition(name) ==
    IF name = "HostPrint"
    THEN [parameter_types |-> <<"String">>, return_type |-> "Int"]
    ELSE IF name = "HostFuncWithBufferAndLength"
    THEN [parameter_types |-> <<"VecBytes", "Int">>, return_type |-> "Int"]
    ELSE [parameter_types |-> <<"VecBytes", "String">>, return_type |-> "Int"]

\* engine type declared for a parameter of wire type p
ParamValType(p) ==
    IF p \in {"Long", "ULong"} THEN "I64"
    ELSE IF p = "Float" THEN "F32"
    ELSE IF p = "Double" THEN "F64"
    ELSE "I32"

\* engine type declared for a return of wire type r: a VecBytes return is
\* declared as a packed i64
ResultValType(r) ==
    IF r \in {"Long", "ULong", "VecBytes"} THEN "I64"
    ELSE IF r = "Float" THEN "F32"
    ELSE IF r = "Double" THEN "F64"
    ELSE "I32"

\* the parameter loop of hostfunc_type from index i on: last_was_vec is set
\* by a VecBytes and stays set; once set, any parameter that is not an Int
\* ends the loop with an error
RECURSIVE hostfunc_params(_, _, _, _)
hostfunc_params(pts, i, last_was_vec, params) ==
    IF i > Len(pts) THEN [res |-> "Ok", params |-> params]
    ELSE IF last_was_vec /\ pts[i] # "Int"
    THEN [res |-> "GuestError", params |-> <<>>]
    ELSE hostfunc_params(pts, i + 1, last_was_vec \/ pts[i] = "VecBytes",
                         Append(params, ParamValType(pts[i])))

\* hostfunc_type: the FuncType a host function is linked under
hostfunc_type(d) ==
    LET ps == hostfunc_params(d.parameter_types, 1, FALSE, <<>>)
    IN  [res |-> ps.res, params |-> ps.params,
         results |-> IF ps.res # "Ok" \/ d.return_type = "Void" THEN <<>>
                     ELSE <<ResultValType(d.return_type)>>]

(* ==================== marshalling (wasm_runtime) ====================== *)
\* The engine's i32 and i64 are modelled IntBits and LongBits wide
IntBits == 4
LongBits == 5
\* guest heap addresses are 1..MaxAddr
MaxAddr == 3

RECURSIVE Pow2(_)
Pow2(n) == IF n = 0 THEN 1 ELSE 2 * Pow2(n - 1)

\* the allocator's first address and its stride, the module image's address
FIRST_VADDR == Pow2(StrideBits)
MMAP_STRIDE == Pow2(StrideBits)
MAPPED_BINARY_VA == Pow2(ImageBits)
OS_PAGE_SIZE == Pow2(PageBits)

\* `as i32` / `as i64`: the two's-complement value of the low bits
wrap_signed(n, bits) ==
    LET r == n % Pow2(bits)
    IN  IF r >= Pow2(bits - 1) THEN r - Pow2(bits) ELSE r

\* `as u32` / `as u64`
wrap_unsigned(n, bits) == n % Pow2(bits)

\* engine values (wasmtime::Val)
I32(n) == [t |-> "I32", v |-> n]
I64(n) == [t |-> "I64", v |-> n]
F32(b) == [t |-> "F32", v |-> b]
F64(b) == [t |-> "F64", v |-> b]

\* wire values (ParameterValue / ReturnValue); a Float or Double is kept as
\* the record of its bit pattern
Tagged(tag, v) == [tag |-> tag, v |-> v]
to_bits(f) == f.bits
from_bits(b) == [bits |-> b]

\* the wire types that carry a value, and the values tried for each
WireTypes ==
    {"Int", "UInt", "Long", "ULong", "Bool", "Float", "Double", "String", "VecBytes"}
ValuesOf(tag) ==
    IF tag = "Int" THEN {-Pow2(IntBits - 1), -1, 0, Pow2(IntBits - 1) - 1}
    ELSE IF tag = "UInt" THEN {0, Pow2(IntBits - 1), Pow2(IntBits) - 1}
    ELSE IF tag = "Long" THEN {-Pow2(LongBits - 1), 0, Pow2(LongBits - 1) - 1}
    ELSE IF tag = "ULong" THEN {0, Pow2(LongBits - 1), Pow2(LongBits) - 1}
    ELSE IF tag = "Bool" THEN BOOLEAN
    ELSE IF tag = "Float" THEN {from_bits(b) : b \in {0, Pow2(IntBits) - 1}}
    ELSE IF tag = "Double" THEN {from_bits(b) : b \in {0, Pow2(LongBits) - 1}}
    ELSE IF tag = "String" THEN {<<>>, <<65>>, <<65, 66>>, <<65, 0, 66>>}
    ELSE {<<>>, <<7>>, <<0, 7>>}

\* guest linear memory: one buffer per heap address
Addrs == 1..MaxAddr
FreeBuf == [live |-> FALSE, bytes |-> <<>>]
EmptyHeap == [a \in Addrs |-> FreeBuf]
LiveAddrs(h) == {a \in Addrs : h[a].live}

\* the module's exported malloc followed by write: the lowest free address
\* receives the bytes; 0 stands for an allocation that failed
malloc_write(h, bytes) ==
    IF LiveAddrs(h) = Addrs
    THEN [addr |-> 0, heap |-> h]
    ELSE LET a == CHOOSE x \in Addrs \ LiveAddrs(h) :
                      \A y \in Addrs \ LiveAddrs(h) : x <= y
         IN  [addr |-> a, heap |-> [h EXCEPT ![a] = [live |-> TRUE, bytes |-> bytes]]]

\* the module's exported free
free(h, a) == IF a \in Addrs THEN [h EXCEPT ![a] = FreeBuf] ELSE h

\* read_cstr: the bytes at a up to the first NUL
RECURSIVE UptoNul(_)
UptoNul(bytes) ==
    IF bytes = <<>> \/ Head(bytes) = 0 THEN <<>>
    ELSE <<Head(bytes)>> \o UptoNul(Tail(bytes))

read_cstr(h, a) ==
    IF a \in LiveAddrs(h) THEN [res |-> "Ok", bytes |-> UptoNul(h[a].bytes)]
    ELSE [res |-> "GuestError", bytes |-> <<>>]

\* read: n bytes at a; a read that leaves the memory at a is an error
read(h, a, n) ==
    IF a \in LiveAddrs(h) /\ n >= 0 /\ n <= Len(h[a].bytes)
    THEN [res |-> "Ok", bytes |-> SubSeq(h[a].bytes, 1, n)]
    ELSE [res |-> "GuestError", bytes |-> <<>>]

\* the reads of a VecBytes return: a length at a, then that many bytes
read_lenpref(h, a) ==
    IF read(h, a, 1).res # "Ok" THEN [res |-> "GuestError", bytes |-> <<>>]
    ELSE LET size == Head(h[a].bytes)
         IN  IF read(h, a, 1 + size).res # "Ok" \/ size < 0
             THEN [res |-> "GuestError", bytes |-> <<>>]
             ELSE [res |-> "Ok", bytes |-> Tail(read(h, a, 1 + size).bytes)]

\* hl_param_to_val: one host parameter to an engine value; String and
\* VecBytes are copied into a fresh guest allocation.  CString::new(..).unwrap()
\* panics on an interior NUL
hl_param_to_val(h, p) ==
    IF p.tag = "Int" THEN [res |-> "Ok", val |-> I32(p.v), heap |-> h]
    ELSE IF p.tag = "UInt"
    THEN [res |-> "Ok", val |-> I32(wrap_signed(p.v, IntBits)), heap |-> h]
    ELSE IF p.tag = "Long" THEN [res |-> "Ok", val |-> I64(p.v), heap |-> h]
    ELSE IF p.tag = "ULong"
    THEN [res |-> "Ok", val |-> I64(wrap_signed(p.v, LongBits)), heap |-> h]
    ELSE IF p.tag = "Bool"
    THEN [res |-> "Ok", val |-> I32(IF p.v THEN 1 ELSE 0), heap |-> h]
    ELSE IF p.tag = "Float" THEN [res |-> "Ok", val |-> F32(to_bits(p.v)), heap |-> h]
    ELSE IF p.tag = "Double" THEN [res |-> "Ok", val |-> F64(to_bits(p.v)), heap |-> h]
    ELSE IF p.tag = "String" /\ \E i \in 1..Len(p.v) : p.v[i] = 0
    THEN [res |-> "GuestAborted", val |-> I32(0), heap |-> h]
    ELSE LET m == malloc_write(h, IF p.tag = "String" THEN Append(p.v, 0) ELSE p.v)
         IN  IF m.addr = 0
             THEN [res |-> "GuestError", val |-> I32(0), heap |-> h]
             ELSE [res |-> "Ok", val |-> I32(m.addr), heap |-> m.heap]

\* the parameter loop of guest_dispatch_function from index i on
RECURSIVE hl_params_to_vals(_, _, _, _)
hl_params_to_vals(h, ps, i, vals) ==
    IF i > Len(ps) THEN [res |-> "Ok", vals |-> vals, heap |-> h]
    ELSE LET r == hl_param_to_val(h, ps[i])
         IN  IF r.res # "Ok" THEN [res |-> r.res, vals |-> vals, heap |-> r.heap]
             ELSE hl_params_to_vals(r.heap, ps, i + 1, Append(vals, r.val))

\* variant: a String or VecBytes return is read but not tracked
val_to_hl_result_untracked(h, tr, rt, rv) ==
    IF rt = "String" /\ rv.t = "I32"
    THEN [res |-> read_cstr(h, rv.v).res,
          ret |-> Tagged("String", read_cstr(h, rv.v).bytes), tracker |-> tr]
    ELSE IF rt = "VecBytes" /\ rv.t = "I32"
    THEN [res |-> read_lenpref(h, rv.v).res,
          ret |-> Tagged("VecBytes", read_lenpref(h, rv.v).bytes),
          tracker |-> tr]
    ELSE [res |-> "GuestError", ret |-> Tagged("Void", 0), tracker |-> tr]

\* val_to_hl_result: the engine result to the host's return value; a String
\* or VecBytes pointer is pushed on RETURN_VALUE_ALLOCATIONS (tr).  There is
\* no arm for Bool
val_to_hl_result(h, tr, rt, rv) ==
    IF rt = "Void" THEN [res |-> "Ok", ret |-> Tagged("Void", 0), tracker |-> tr]
    ELSE IF rt = "Int" /\ rv.t = "I32"
    THEN [res |-> "Ok", ret |-> Tagged("Int", rv.v), tracker |-> tr]
    ELSE IF rt = "UInt" /\ rv.t = "I32"
    THEN [res |-> "Ok", ret |-> Tagged("UInt", wrap_unsigned(rv.v, IntBits)), tracker |-> tr]
    ELSE IF rt = "Long" /\ rv.t = "I64"
    THEN [res |-> "Ok", ret |-> Tagged("Long", rv.v), tracker |-> tr]
    ELSE IF rt = "ULong" /\ rv.t = "I64"
    THEN [res |-> "Ok", ret |-> Tagged("ULong", wrap_unsigned(rv.v, LongBits)), tracker |-> tr]
    ELSE IF rt = "Float" /\ rv.t = "F32"
    THEN [res |-> "Ok", ret |-> Tagged("Float", from_bits(rv.v)), tracker |-> tr]
    ELSE IF rt = "Double" /\ rv.t = "F64"
    THEN [res |-> "Ok", ret |-> Tagged("Double", from_bits(rv.v)), tracker |-> tr]
    ELSE IF rt = "String" /\ rv.t = "I32"
    THEN [res |-> read_cstr(h, rv.v).res,
          ret |-> Tagged("String", read_cstr(h, rv.v).bytes),
          tracker |-> Append(tr, rv.v)]
    ELSE IF rt = "VecBytes" /\ rv.t = "I32"
    THEN [res |-> read_lenpref(h, rv.v).res,
          ret |-> Tagged("VecBytes", read_lenpref(h, rv.v).bytes),
          tracker |-> Append(tr, rv.v)]
    ELSE [res |-> "GuestError", ret |-> Tagged("Void", 0), tracker |-> tr]

\* val_to_hl_param: the next host-call parameter of type pt out of the engine
\* arguments ps.  j is the iterator's position, lvl the pending vector length
\* (last_vec_len); a panic aborts the guest
NoLen == [some |-> FALSE, l |-> 0]
ParamPanic(j, lvl) ==
    [res |-> "GuestAborted", param |-> Tagged("Void", 0), j |-> j, lvl |-> lvl]
ParamOk(pv, j, lvl) == [res |-> "Ok", param |-> pv, j |-> j, lvl |-> lvl]

\* the Bool arm: `*b == 0`
val_to_hl_param_bool(b) == b = 0

val_to_hl_param(h, ps, j, lvl, pt) ==
    IF lvl.some
    THEN IF pt = "Int"
         THEN ParamOk(Tagged("Int", wrap_signed(lvl.l, IntBits)), j, NoLen)
         ELSE ParamPanic(j, lvl)
    ELSE IF j > Len(ps) THEN ParamPanic(j, lvl)
    ELSE LET v == ps[j]
         IN  IF pt = "Int" /\ v.t = "I32" THEN ParamOk(Tagged("Int", v.v), j + 1, lvl)
             ELSE IF pt = "UInt" /\ v.t = "I32"
             THEN ParamOk(Tagged("UInt", wrap_unsigned(v.v, IntBits)), j + 1, lvl)
             ELSE IF pt = "Long" /\ v.t = "I64" THEN ParamOk(Tagged("Long", v.v), j + 1, lvl)
             ELSE IF pt = "ULong" /\ v.t = "I64"
             THEN ParamOk(Tagged("ULong", wrap_unsigned(v.v, LongBits)), j + 1, lvl)
             ELSE IF pt = "Bool" /\ v.t = "I32"
             THEN ParamOk(Tagged("Bool", val_to_hl_param_bool(v.v)), j + 1, lvl)
             ELSE IF pt = "Float" /\ v.t = "F32"
             THEN ParamOk(Tagged("Float", from_bits(v.v)), j + 1, lvl)
             ELSE IF pt = "Double" /\ v.t = "F64"
             THEN ParamOk(Tagged("Double", from_bits(v.v)), j + 1, lvl)
             ELSE IF pt = "String" /\ v.t = "I32"
             THEN IF read_cstr(h, v.v).res = "Ok"
                  THEN ParamOk(Tagged("String", read_cstr(h, v.v).bytes), j + 1, lvl)
                  ELSE ParamPanic(j + 1, lvl)
             ELSE IF pt = "VecBytes" /\ v.t = "I32"
             THEN IF j + 1 > Len(ps) \/ ps[j + 1].t # "I32"
                  THEN ParamPanic(j + 1, lvl)
                  ELSE LET l == ps[j + 1].v
                           lvl2 == [some |-> TRUE, l |-> wrap_unsigned(l, IntBits)]
                       IN  IF read(h, v.v, l).res = "Ok"
                           THEN ParamOk(Tagged("VecBytes", read(h, v.v, l).bytes),
                                        j + 2, lvl2)
                           ELSE ParamPanic(j + 2, lvl2)
             ELSE ParamPanic(j + 1, lvl)

\* variant: the pending vector length is not carried to the next parameter
RECURSIVE val_to_hl_params_nolen(_, _, _, _, _, _, _)
val_to_hl_params_nolen(h, ps, j, lvl, pts, i, params) ==
    IF i > Len(pts) THEN [res |-> "Ok", params |-> params, consumed |-> j - 1]
    ELSE LET r == val_to_hl_param(h, ps, j, NoLen, pts[i])
         IN  IF r.res # "Ok"
             THEN [res |-> r.res, params |-> params, consumed |-> r.j - 1]
             ELSE val_to_hl_params_nolen(h, ps, r.j, r.lvl, pts, i + 1,
                                         Append(params, r.param))

\* the scan of hostfuncs::call over d.parameter_types from index i on
RECURSIVE val_to_hl_params(_, _, _, _, _, _, _)
val_to_hl_params(h, ps, j, lvl, pts, i, params) ==
    IF i > Len(pts) THEN [res |-> "Ok", params |-> params, consumed |-> j - 1]
    ELSE LET r == val_to_hl_param(h, ps, j, lvl, pts[i])
         IN  IF r.res # "Ok"
             THEN [res |-> r.res, params |-> params, consumed |-> r.j - 1]
             ELSE val_to_hl_params(h, ps, r.j, r.lvl, pts, i + 1,
                                   Append(params, r.param))

\* hl_return_to_val: a host function's return value to an engine value
hl_return_to_val(h, rv) ==
    IF rv.tag = "Int" THEN [res |-> "Ok", val |-> I32(rv.v), heap |-> h]
    ELSE IF rv.tag = "UInt"
    THEN [res |-> "Ok", val |-> I32(wrap_signed(rv.v, IntBits)), heap |-> h]
    ELSE IF rv.tag = "Long" THEN [res |-> "Ok", val |-> I64(rv.v), heap |-> h]
    ELSE IF rv.tag = "ULong"
    THEN [res |-> "Ok", val |-> I64(wrap_signed(rv.v, LongBits)), heap |-> h]
    ELSE IF rv.tag = "Bool"
    THEN [res |-> "Ok", val |-> I32(IF rv.v THEN 1 ELSE 0), heap |-> h]
    ELSE IF rv.tag = "Float" THEN [res |-> "Ok", val |-> F32(to_bits(rv.v)), heap |-> h]
    ELSE IF rv.tag = "Double" THEN [res |-> "Ok", val |-> F64(to_bits(rv.v)), heap |-> h]
    ELSE IF rv.tag = "Void" THEN [res |-> "Ok", val |-> I32(0), heap |-> h]
    ELSE IF rv.tag = "String" /\ \E i \in 1..Len(rv.v) : rv.v[i] = 0
    THEN [res |-> "GuestAborted", val |-> I32(0), heap |-> h]
    ELSE LET m == malloc_write(h, IF rv.tag = "String" THEN Append(rv.v, 0) ELSE rv.v)
         IN  IF m.addr = 0
             THEN [res |-> "GuestError", val |-> I32(0), heap |-> h]
             ELSE [res |-> "Ok", val |-> I32(m.addr), heap |-> m.heap]

(* ------------------------------ guest state --------------------------- *)
\* Guest memory as seen by a snapshot: the wasm_runtime statics
\* (engine: CUR_ENGINE; linker: the host functions wired into CUR_LINKER; module: CUR_MODULE/CUR_STORE/CUR_INSTANCE,
\* "none" when unset; allocs: RETURN_VALUE_ALLOCATIONS) and the instance's
\* linear memory (mem).  An address in allocs is "own" when the allocator of
\* the instance now in CUR_INSTANCE returned it and "stale" when it was
\* returned by an instance that has since been replaced.
\* locked: some spin mutex of the guest (CUR_STORE, CUR_INSTANCE,
\* RETURN_VALUE_ALLOCATIONS, ...) is held; a guest that left through its
\* return path has dropped every guard.
BootGuest ==
    [engine |-> FALSE, linker |-> {}, module |-> "none", mem |-> 0,
     allocs |-> <<>>, locked |-> FALSE]

NoSnapshot == [sid |-> "none", guest |-> BootGuest]
\* a snapshot taken from another sandbox
ForeignSnapshot == [sid |-> "other", guest |-> BootGuest]

NoCall == [pc |-> "idle", fn |-> "none", arg |-> 0, progress |-> 0]

VARIABLES
    phase,            \* "None", "Proto", "Runtime" (WasmSandbox), "Loaded"
    host_funcs,       \* names in the sandbox's host function registry
    inner,            \* the MultiUseSandbox: [guest, poisoned]
    cancel_requested, \* interrupt handle: a kill() not yet consumed
    needs_restore,    \* WasmSandbox.needs_restore
    runtime_snapshot, \* WasmSandbox.snapshot / LoadedWasmSandbox.runtime_snapshot
    snaps,            \* snapshots held by the caller
    call,             \* the guest call in progress on the owning thread
    last,             \* last operation completed and its result
    \* the guest side seen alone, one dispatch at a time
    d_pc,             \* position inside guest_dispatch_function, "host" outside
    heap,             \* guest linear memory: the buffers at each address
    tracker,          \* RETURN_VALUE_ALLOCATIONS
    fc,               \* the FunctionCall being dispatched
    w_vals,           \* engine values: w_params, then results
    ret,              \* what the dispatch handed back to the host
    freed,            \* the addresses this dispatch released on entry
    \* one call of a host function from the guest
    hc_pc,            \* "guest" before hostfuncs::call, "done" after
    hc_def,           \* the HostFunctionDefinition called
    hc_ps,            \* the engine arguments ps
    hc_out,           \* parameters marshalled, arguments consumed, result
    \* what the last load operation did on its way to the guest
    load_trace,       \* entry points invoked, imports named, slots left
    \* a second sandbox and the process-wide gauges
    other,            \* the life-cycle state of the sandbox not being driven
    gauge,            \* active-sandbox gauges, one per phase
    thread,           \* the caller thread that owns the sandbox being driven
    \* SandboxBuilder
    config,           \* SandboxConfiguration: input, stack and heap sizes
    passed,           \* the value each setter was last passed, 0 when never
    \* wasm_runtime platform layer
    first_vaddr,      \* FIRST_VADDR
    regions,          \* base addresses wasmtime_mmap_new has returned
    page_table,       \* pages mapped in the engine's window, with content
    pf,               \* the last page fault and what the handler answered
    mmap_ret,         \* the last wasmtime_* call and what it returned
    \* a host function from its declaration to its return
    ht_pc,            \* "none", "declared", "linked", "refused", "returned"
    ht_def,           \* the HostFunctionDefinition
    ht_type,          \* what hostfunc_type made of it
    ht_val,           \* what hl_return_to_val made of the value returned
    \* the statics of wasm_runtime, slot by slot
    slots,            \* CUR_ENGINE, CUR_LINKER, CUR_MODULE, CUR_STORE, CUR_INSTANCE
    slot_snap,        \* the slots as a host snapshot holds them
    slot_last,        \* the last guest entry, its result, the slots before it
    \* the process-wide metrics counters
    counters,         \* sandbox loads, sandbox unloads, Loaded sandboxes created
    \* the guest's exception path
    trap,             \* the registered trap handler, the saved rip and registers
    trap_last         \* the last exception: vector, verdict, frame before it

\* the sandbox life cycle, the dispatch and the host call
svars == <<phase, host_funcs, inner, cancel_requested, needs_restore,
           runtime_snapshot, snaps, call, last>>
dvars == <<d_pc, heap, tracker, fc, w_vals, ret, freed>>
hvars == <<hc_pc, hc_def, hc_ps, hc_out>>

lvars == <<load_trace>>
pvars == <<other, gauge, thread>>
bvars == <<config, passed>>
mvars == <<first_vaddr, regions, page_table, pf, mmap_ret>>
tvars == <<ht_pc, ht_def, ht_type, ht_val>>
gvars == <<slots, slot_snap, slot_last>>
cvars == <<counters>>
evars == <<trap, trap_last>>
xvars == <<lvars, pvars, bvars, mvars, tvars, gvars, cvars, evars>>

vars == <<svars, dvars, hvars, xvars>>

\* what the caller saw of the last operation: its name, the function or
\* module named, the argument, Ok/Err, the error, the value returned, the
\* snapshot passed in or handed out, the operation completed before it and
\* its Ok/Err,
\* whether the sandbox was poisoned when the operation began and whether the
\* guest was running when it ended
Result(op, fn, arg, err, val, snap) ==
    [op |-> op, fn |-> fn, arg |-> arg,
     prev |-> last.op, prev_status |-> last.status,
     was_poisoned |-> inner.poisoned, was_running |-> call.pc = "running",
     status |-> IF err = "Ok" THEN "Ok" ELSE "Err",
     err |-> IF err = "Ok" THEN "" ELSE err,
     val |-> IF err = "Ok" THEN val ELSE 0,
     snap |-> snap]

NoResult ==
    [op |-> "none", fn |-> "none", arg |-> 0,
     prev |-> "none", prev_status |-> "Ok",
     was_poisoned |-> FALSE, was_running |-> FALSE, status |-> "Ok",
     err |-> "", val |-> 0, snap |-> NoSnapshot]

(* ------------------- MultiUseSandbox (hyperlight_host) ---------------- *)
\* MultiUseSandbox::snapshot: refused while poisoned, else the full guest state
MUS_snapshot(sb) ==
    IF sb.poisoned
    THEN [res |-> "PoisonedSandbox", snap |-> NoSnapshot]
    ELSE [res |-> "Ok", snap |-> [sid |-> "this", guest |-> sb.guest]]

\* variant: the restore leaves the linear memory as it is
MUS_restore_partial(sb, snap) ==
    IF snap.sid # "this"
    THEN [res |-> "SnapshotSandboxMismatch", sb |-> sb]
    ELSE [res |-> "Ok",
          sb |-> [guest |-> [snap.guest EXCEPT !.mem = sb.guest.mem],
                  poisoned |-> FALSE]]

\* MultiUseSandbox::restore: overwrites the guest state and clears poisoning;
\* a snapshot of another sandbox is rejected and nothing changes
MUS_restore(sb, snap) ==
    IF snap.sid # "this"
    THEN [res |-> "SnapshotSandboxMismatch", sb |-> sb]
    ELSE [res |-> "Ok", sb |-> [guest |-> snap.guest, poisoned |-> FALSE]]

\* MultiUseSandbox::poisoned
MUS_poisoned(sb) == sb.poisoned

\* variant: the call entry does not look at the poisoned flag
MUS_call_entry_unchecked(sb, cr) ==
    IF cr THEN "ExecutionCanceledByHost" ELSE "run"

\* variant: a kill requested before the call is forgotten at entry
MUS_call_entry_nolatch(sb, cr) ==
    IF sb.poisoned THEN "PoisonedSandbox" ELSE "run"

\* Entry of MultiUseSandbox::call: a poisoned sandbox is refused before the
\* vCPU runs; a latched kill cancels the call; otherwise the guest runs
MUS_call_entry(sb, cr) ==
    IF sb.poisoned THEN "PoisonedSandbox"
    ELSE IF cr THEN "ExecutionCanceledByHost"
    ELSE "run"

\* errors after which MultiUseSandbox marks itself poisoned
PoisonErrors == {"ExecutionCanceledByHost", "GuestAborted"}

(* ----------------------- wasm_runtime (guest side) -------------------- *)
Bump(m) == (m + 1) % (MaxMem + 1)

\* init_wasm_runtime: engine and linker are created, every host function in
\* the details hfs is linked under its hostfunc_type, and both are stored;
\* a host function whose type cannot be built fails the whole call
init_wasm_runtime(g, hfs) ==
    IF \E h \in hfs : hostfunc_type(HostFunctionDefinition(h)).res # "Ok"
    THEN [res |-> "GuestError", guest |-> g]
    ELSE [res |-> "Ok", guest |-> [g EXCEPT !.engine = TRUE, !.linker = hfs]]

\* the imports of m that linker.instantiate cannot resolve; its error
\* names them
unresolved_imports(g, m) ==
    IF g.engine /\ m \in ValidModules \cup ImportingModules
    THEN Imports(m) \ g.linker
    ELSE {}

\* load_wasm_module / load_wasm_module_phys: deserialize, instantiate and
\* only then store module, store and instance; RETURN_VALUE_ALLOCATIONS is
\* not touched.  CUR_ENGINE.lock() on a mutex left held spins for ever
\* ("Blocked": the entry never returns)
load_wasm_module(g, m) ==
    IF g.locked THEN [res |-> "Blocked", guest |-> g]
    ELSE IF g.engine /\ m \in ValidModules \cup ImportingModules
       /\ unresolved_imports(g, m) = {}
    THEN [res |-> "Ok",
          guest |-> [g EXCEPT !.module = m, !.mem = 0,
                              !.allocs = [i \in 1..Len(g.allocs) |-> "stale"]]]
    ELSE [res |-> "GuestError", guest |-> g]

\* free_return_value_allocations: drains the tracker and calls the current
\* instance's free on every address; an address that this instance's
\* allocator never returned is undefined behaviour inside the module, which
\* either goes unnoticed or traps in the allocator
free_return_value_allocations(g) ==
    LET drained == [g EXCEPT !.allocs = <<>>]
        foreign == \E i \in 1..Len(g.allocs) : g.allocs[i] = "stale"
    IN  IF foreign
        THEN {[res |-> "Ok", guest |-> drained],
              [res |-> "GuestError", guest |-> drained]}
        ELSE {[res |-> "Ok", guest |-> drained]}

\* the exported function itself, run to completion on guest state g
RunExport(g, fn, arg) ==
    IF fn = "Abort"
    THEN [res |-> "GuestAborted", val |-> 0, guest |-> [g EXCEPT !.mem = Bump(@)]]
    ELSE IF fn \in {"Echo", "HelloWorld"}
    THEN [res |-> "Ok", val |-> FnResult(fn, arg),
          guest |-> [g EXCEPT !.mem = Bump(@),
                              !.allocs = IF fn = "Echo" THEN <<"own">> ELSE @]]
    ELSE [res |-> "Ok", val |-> FnResult(fn, arg), guest |-> g]

\* guest_dispatch_function: store/instance lookup, free of the previous
\* call's return allocations, export lookup, call, result marshalling
guest_dispatch_function(g, fn, arg) ==
    IF g.module = "none"
    THEN {[res |-> "GuestError", val |-> 0, guest |-> g]}
    ELSE { IF f.res # "Ok" \/ fn \notin Exports(f.guest.module)
           THEN [res |-> "GuestError", val |-> 0, guest |-> f.guest]
           ELSE RunExport(f.guest, fn, arg)
           : f \in free_return_value_allocations(g) }

\* guest_dispatch_function takes CUR_STORE and CUR_INSTANCE on entry
lock_guards(g) == [g EXCEPT !.locked = TRUE]

\* the guards are dropped on every return path of guest_dispatch_function;
\* an abort leaves the guest without unwinding
drop_guards(out) ==
    IF out.res = "GuestAborted" THEN out ELSE [out EXCEPT !.guest.locked = FALSE]

(* -------------------- MultiUseSandbox::call, whole call --------------- *)
\* variant: an abnormal guest exit is reported but the sandbox is not
\* marked poisoned
MUS_call_nopoison(sb, cr, out) ==
    LET e == MUS_call_entry(sb, cr)
    IN  IF e = "PoisonedSandbox"
        THEN [res |-> e, val |-> 0, sb |-> sb, cr |-> cr]
        ELSE IF e = "ExecutionCanceledByHost"
        THEN [res |-> e, val |-> 0, sb |-> [sb EXCEPT !.poisoned = TRUE], cr |-> FALSE]
        ELSE [res |-> out.res, val |-> out.val, cr |-> cr,
              sb |-> [guest |-> out.guest, poisoned |-> FALSE]]

\* A guest function entered through MultiUseSandbox::call that runs to
\* completion with outcome out (what the guest function does on sb.guest)
MUS_call(sb, cr, out) ==
    LET e == MUS_call_entry(sb, cr)
    IN  IF e = "PoisonedSandbox"
        THEN [res |-> e, val |-> 0, sb |-> sb, cr |-> cr]
        ELSE IF e = "ExecutionCanceledByHost"
        THEN [res |-> e, val |-> 0, sb |-> [sb EXCEPT !.poisoned = TRUE], cr |-> FALSE]
        ELSE [res |-> out.res, val |-> out.val, cr |-> cr,
              sb |-> [guest |-> out.guest, poisoned |-> out.res \in PoisonErrors]]

(* ------------------------- WasmSandbox helpers ------------------------ *)
\* WasmSandbox::new_from_loaded: keeps the VM as it is and notes that a
\* restore is owed
new_from_loaded(sb, snap) ==
    [inner |-> sb, snapshot |-> snap, needs_restore |-> TRUE]

\* WasmSandbox::restore_if_needed
restore_if_needed(sb, snap, nr) ==
    IF nr
    THEN LET r == MUS_restore(sb, snap)
         IN  IF r.res = "Ok"
             THEN [res |-> "Ok", sb |-> r.sb, needs_restore |-> FALSE]
             ELSE [res |-> r.res, sb |-> sb, needs_restore |-> TRUE]
    ELSE [res |-> "Ok", sb |-> sb, needs_restore |-> FALSE]

\* load_wasm_module_from_bytes / the LoadWasmModulePhys call: one guest call
\* of the load entry point
load_wasm_module_from_bytes(sb, cr, m) ==
    MUS_call(sb, cr, [res |-> load_wasm_module(sb.guest, m).res, val |-> 0,
                      guest |-> load_wasm_module(sb.guest, m).guest])

(* ---------------------- LoadedWasmSandbox wrappers -------------------- *)
\* variant: a snapshot is taken whatever the poisoned flag says
LoadedWasmSandbox_snapshot_unguarded(sb) ==
    [res |-> "Ok", snap |-> [sid |-> "this", guest |-> sb.guest]]

\* LoadedWasmSandbox::snapshot
LoadedWasmSandbox_snapshot(sb) == MUS_snapshot(sb)

\* variant: the restore clears the poisoned flag and nothing else
LoadedWasmSandbox_restore_flagonly(sb, snap) ==
    IF snap.sid # "this"
    THEN [res |-> "SnapshotSandboxMismatch", sb |-> sb]
    ELSE [res |-> "Ok", sb |-> [sb EXCEPT !.poisoned = FALSE]]

\* LoadedWasmSandbox::restore
LoadedWasmSandbox_restore(sb, snap) == MUS_restore(sb, snap)

\* LoadedWasmSandbox::is_poisoned
is_poisoned == MUS_poisoned(inner)

(* -------------------------------- Init -------------------------------- *)
FreshInner == [guest |-> BootGuest, poisoned |-> FALSE]

\* no sandbox has been built
NoSandbox ==
    /\ phase = "None"
    /\ host_funcs = {}
    /\ inner = FreshInner
    /\ cancel_requested = FALSE
    /\ needs_restore = FALSE
    /\ runtime_snapshot = NoSnapshot
    /\ snaps = {}
    /\ call = NoCall
    /\ last = NoResult

\* no dispatch is looked into
NoFunctionCall ==
    [function_name |-> "none", parameters |-> <<>>, expected_return_type |-> "Void"]
NoRet == [res |-> "none", ret |-> Tagged("Void", 0)]
NoDispatch ==
    /\ d_pc = "host"
    /\ heap = EmptyHeap
    /\ tracker = <<>>
    /\ fc = NoFunctionCall
    /\ w_vals = <<>>
    /\ ret = NoRet
    /\ freed = {}

\* no host call is looked into
NoHostOut ==
    [res |-> "none", params |-> <<>>, consumed |-> 0, rv |-> Tagged("Void", 0),
     rs |-> <<>>]
NoHostCall ==
    /\ hc_pc = "none"
    /\ hc_def = [function_name |-> "none", parameter_types |-> <<>>,
                 return_type |-> "Void"]
    /\ hc_ps = <<>>
    /\ hc_out = NoHostOut

\* no load operation is traced
NoLoadTrace ==
    [op |-> "none", path |-> "none", fn |-> "none", was_fresh |-> FALSE,
     entered |-> FALSE, entries |-> <<>>, maps |-> 0, missing |-> {},
     module |-> "none"]

\* no second sandbox, no gauge moved
NoOther ==
    [phase |-> "None", host_funcs |-> {}, inner |-> FreshInner,
     cancel_requested |-> FALSE, needs_restore |-> FALSE,
     runtime_snapshot |-> NoSnapshot, snaps |-> {}, call |-> NoCall,
     last |-> NoResult, thread |-> 2]
NoGauges == [ph \in {"Proto", "Runtime", "Loaded"} |-> 0]

\* SandboxBuilder::new: input and heap sizes are set to their floors, the
\* stack size is the SandboxConfiguration default
NewConfig ==
    [input |-> MIN_INPUT_DATA_SIZE, stack |-> DEFAULT_STACK_SIZE,
     heap |-> MIN_HEAP_SIZE, error |-> MIN_GUEST_ERROR_BUFFER_SIZE]
NothingPassed == [input |-> 0, stack |-> 0, heap |-> 0, error |-> 0]

NoFault == [addr |-> 0, error_code |-> 0, handled |-> FALSE, seen |-> FALSE]
NoMmapCall == [op |-> "none", size |-> 0, ret |-> 0, base |-> 0]

NoDefinition ==
    [function_name |-> "none", parameter_types |-> <<>>, return_type |-> "Void"]
NoFuncType == [res |-> "none", params |-> <<>>, results |-> <<>>]
NoVal == [res |-> "none", val |-> I32(0)]

\* the statics of module.rs as the guest binary starts: all None
NoSlots ==
    [engine |-> FALSE, linker_set |-> FALSE, linker |-> {}, module |-> "none",
     store |-> "none", instance |-> "none"]
NoEntry == [op |-> "none", res |-> "Ok", before |-> NoSlots]
NoGuestEntries ==
    /\ slots = NoSlots
    /\ slot_snap = NoSlots
    /\ slot_last = NoEntry

\* the metrics counters of a process that has loaded nothing yet
NoCounters == [loads |-> 0, unloads |-> 0, loaded_total |-> 0]

\* the saved frame of an interrupted guest: handler::ExceptionInfo.rip and
\* the fifteen general purpose registers of handler::Context
GprIndex == 0..14
NoFrame == [rip |-> 0, gprs |-> [i \in GprIndex |-> 0]]
\* WASMTIME_REQUESTED_TRAP_HANDLER starts at 0
NoTraps ==
    /\ trap = [requested_handler |-> 0, frame |-> NoFrame]
    /\ trap_last = [exception_number |-> 0, handled |-> FALSE, seen |-> FALSE,
                    requested_handler |-> 0, before |-> NoFrame]

\* the state of everything but the sandbox, the dispatch and the host call
NoExtras ==
    /\ load_trace = NoLoadTrace
    /\ other = NoOther
    /\ gauge = NoGauges
    /\ thread = 1
    /\ config = NewConfig
    /\ passed = NothingPassed
    /\ first_vaddr = FIRST_VADDR
    /\ regions = <<>>
    /\ page_table = {}
    /\ pf = NoFault
    /\ mmap_ret = NoMmapCall
    /\ ht_pc = "none"
    /\ ht_def = NoDefinition
    /\ ht_type = NoFuncType
    /\ ht_val = NoVal
    /\ NoGuestEntries
    /\ counters = NoCounters
    /\ NoTraps

Init == NoSandbox /\ NoDispatch /\ NoHostCall /\ NoExtras

\* the sandbox value is dropped: its VM, snapshots and handle go with it
Dropped(res) ==
    /\ phase' = "None"
    /\ host_funcs' = {}
    /\ inner' = FreshInner
    /\ cancel_requested' = FALSE
    /\ needs_restore' = FALSE
    /\ runtime_snapshot' = NoSnapshot
    /\ snaps' = {}
    /\ call' = NoCall
    /\ last' = res

(* ------------------------------ Proto --------------------------------- *)
\* SandboxBuilder::build: the new sandbox's registry holds the default
\* HostPrint
build ==
    /\ phase = "None"
    /\ phase' = "Proto"
    /\ host_funcs' = {"HostPrint"}
    /\ last' = Result("build", "none", 0, "Ok", 0, NoSnapshot)
    /\ UNCHANGED <<inner, cancel_requested, needs_restore, runtime_snapshot,
                   snaps, call>>

\* variant: a registration is also accepted after load_runtime
register_host_function_late(h) ==
    /\ phase \in {"Proto", "Runtime"}
    /\ host_funcs' = host_funcs \cup {h}
    /\ last' = Result("register_host_function", h, 0, "Ok", 0, NoSnapshot)
    /\ UNCHANGED <<phase, inner, cancel_requested, needs_restore,
                   runtime_snapshot, snaps, call>>

\* ProtoWasmSandbox::register_host_function
register_host_function(h) ==
    /\ phase = "Proto"
    /\ host_funcs' = host_funcs \cup {h}
    /\ last' = Result("register_host_function", h, 0, "Ok", 0, NoSnapshot)
    /\ UNCHANGED <<phase, inner, cancel_requested, needs_restore,
                   runtime_snapshot, snaps, call>>

\* WasmSandbox::new: the snapshot kept for unloading is taken here
WasmSandbox_new(sb) ==
    [inner |-> sb, snapshot |-> MUS_snapshot(sb).snap, needs_restore |-> FALSE]

\* variant: the runtime snapshot is taken before InitWasmRuntime is called
load_runtime_snapshot_first ==
    /\ phase = "Proto"
    /\ LET c == MUS_call(inner, cancel_requested,
                         [res |-> init_wasm_runtime(inner.guest, host_funcs).res,
                          val |-> 0,
                          guest |-> init_wasm_runtime(inner.guest, host_funcs).guest])
           w == WasmSandbox_new(inner)
       IN  IF c.res = "Ok"
           THEN /\ phase' = "Runtime"
                /\ inner' = c.sb
                /\ runtime_snapshot' = w.snapshot
                /\ needs_restore' = w.needs_restore
                /\ last' = Result("load_runtime", "none", 0, "Ok", 0, NoSnapshot)
                /\ UNCHANGED <<host_funcs, cancel_requested, snaps, call>>
           ELSE Dropped(Result("load_runtime", "none", 0, c.res, 0, NoSnapshot))

\* ProtoWasmSandbox::load_runtime: the registry is handed to the guest, the
\* guest call InitWasmRuntime is made once and, when it succeeded,
\* WasmSandbox::new follows; on an error self has been consumed
load_runtime ==
    /\ phase = "Proto"
    /\ LET c == MUS_call(inner, cancel_requested,
                         [res |-> init_wasm_runtime(inner.guest, host_funcs).res,
                          val |-> 0,
                          guest |-> init_wasm_runtime(inner.guest, host_funcs).guest])
           w == WasmSandbox_new(c.sb)
       IN  IF c.res = "Ok"
           THEN /\ phase' = "Runtime"
                /\ inner' = w.inner
                /\ runtime_snapshot' = w.snapshot
                /\ needs_restore' = w.needs_restore
                /\ last' = Result("load_runtime", "none", 0, "Ok", 0, NoSnapshot)
                /\ UNCHANGED <<host_funcs, cancel_requested, snaps, call>>
           ELSE Dropped(Result("load_runtime", "none", 0, c.res, 0, NoSnapshot))

(* ------------------------ Runtime (WasmSandbox) ----------------------- *)
\* The guest load call shared by the load operations and what follows it:
\* finalize_module_load on success, the error return (self is dropped) else
LoadCall(op, sb, m) ==
    LET c == load_wasm_module_from_bytes(sb, cancel_requested, m)
    IN  IF c.res = "Ok"
        THEN /\ phase' = "Loaded"
             /\ inner' = c.sb
             /\ cancel_requested' = c.cr
             /\ needs_restore' = FALSE
             /\ last' = Result(op, m, 0, "Ok", 0, NoSnapshot)
             /\ UNCHANGED <<host_funcs, runtime_snapshot, snaps, call>>
        ELSE Dropped(Result(op, m, 0, c.res, 0, NoSnapshot))

\* WasmSandbox::load_module: restore_if_needed (its result is not looked
\* at), then LoadWasmModulePhys or, when mapping fails, LoadWasmModule
load_module(m) ==
    /\ phase = "Runtime"
    /\ LoadCall("load_module",
                restore_if_needed(inner, runtime_snapshot, needs_restore).sb, m)

\* WasmSandbox::load_module_by_mapping: as load_module for a caller region
load_module_by_mapping(m) ==
    /\ phase = "Runtime"
    /\ LoadCall("load_module_by_mapping",
                restore_if_needed(inner, runtime_snapshot, needs_restore).sb, m)

\* WasmSandbox::load_module_from_buffer: the guest load call on the VM as
\* it stands
load_module_from_buffer(m) ==
    /\ phase = "Runtime"
    /\ LoadCall("load_module_from_buffer", inner, m)

\* WasmSandbox::load_from_snapshot: restore (result not looked at), then
\* LoadedWasmSandbox::new
load_from_snapshot(s) ==
    /\ phase = "Runtime"
    /\ phase' = "Loaded"
    /\ inner' = MUS_restore(inner, s).sb
    /\ needs_restore' = FALSE
    /\ last' = Result("load_from_snapshot", "none", 0, "Ok", 0, s)
    /\ UNCHANGED <<host_funcs, cancel_requested, runtime_snapshot, snaps, call>>

(* --------------- the load operations, down to the guest --------------- *)
\* how the module reaches the guest: the file or region was mapped, it was
\* copied through host memory, or the file could not be read either
LoadPaths == {"mapped", "copied", "unreadable"}

\* variant: load_module always takes the copy path
load_entrypoint_copy_only(path) ==
    IF path = "unreadable" THEN <<>> ELSE <<"LoadWasmModule">>

\* the guest function a load operation calls: LoadWasmModulePhys when
\* map_file_cow / map_region returned Ok, LoadWasmModule when the bytes
\* were read instead, none when std::fs::read failed too
load_entrypoint(path) ==
    IF path = "mapped" THEN <<"LoadWasmModulePhys">>
    ELSE IF path = "copied" THEN <<"LoadWasmModule">>
    ELSE <<>>

\* what a load operation did on the VM sb: the guest functions it invoked
\* (none when MultiUseSandbox::call refused the call at entry), the imports
\* the guest's error names and the module slot as the guest left it
LoadTrace(op, sb, m, path, mapping) ==
    LET entered == load_entrypoint(path) # <<>>
                   /\ MUS_call_entry(sb, cancel_requested) = "run"
    IN  [op |-> op, path |-> path, fn |-> m,
         was_fresh |-> sb.guest.module = "none",
         entered |-> entered,
         entries |-> IF entered THEN load_entrypoint(path) ELSE <<>>,
         maps |-> IF mapping /\ path = "mapped" THEN 1 ELSE 0,
         missing |-> IF entered THEN unresolved_imports(sb.guest, m) ELSE {},
         module |-> IF entered THEN load_wasm_module(sb.guest, m).guest.module
                    ELSE sb.guest.module]

\* WasmSandbox::load_module with the outcome of map_file_cow and of
\* std::fs::read as inputs
load_module_file(m, path) ==
    /\ phase = "Runtime"
    /\ LET sb == restore_if_needed(inner, runtime_snapshot, needs_restore).sb
       IN  /\ load_trace' = LoadTrace("load_module", sb, m, path, TRUE)
           /\ IF path = "unreadable"
              THEN Dropped(Result("load_module", m, 0, "IOError", 0, NoSnapshot))
              ELSE LoadCall("load_module", sb, m)

\* WasmSandbox::load_module_by_mapping with the outcome of map_region as
\* input; a region that cannot be mapped is copied from the caller's memory
load_module_region(m, path) ==
    /\ phase = "Runtime"
    /\ path # "unreadable"
    /\ LET sb == restore_if_needed(inner, runtime_snapshot, needs_restore).sb
       IN  /\ load_trace' = LoadTrace("load_module_by_mapping", sb, m, path, TRUE)
           /\ LoadCall("load_module_by_mapping", sb, m)

\* WasmSandbox::load_module_from_buffer: no mapping is attempted
load_module_buffer(m) ==
    /\ phase = "Runtime"
    /\ load_trace' = LoadTrace("load_module_from_buffer", inner, m, "copied", FALSE)
    /\ LoadCall("load_module_from_buffer", inner, m)

(* ----------------------- Loaded (LoadedWasmSandbox) ------------------- *)
\* variant: the Loaded operations are offered in every phase
Idle_any_phase == call.pc = "idle"

\* the operations of LoadedWasmSandbox take &mut self of a Loaded sandbox:
\* no guest call is in progress on it
Idle == phase = "Loaded" /\ call.pc = "idle"

\* LoadedWasmSandbox::call_guest_function, entry: refused when poisoned,
\* cancelled by a latched kill, else the vCPU starts running the guest,
\* which takes its locks or spins on one that is held
call_guest_function(fn, arg) ==
    /\ Idle
    /\ LET e == MUS_call_entry(inner, cancel_requested)
       IN  IF e = "run"
           THEN /\ call' = [pc |-> IF inner.guest.locked THEN "blocked" ELSE "running",
                            fn |-> fn, arg |-> arg, progress |-> 0]
                /\ inner' = [inner EXCEPT !.guest = lock_guards(@)]
                /\ UNCHANGED <<cancel_requested, last>>
           ELSE /\ inner' = MUS_call(inner, cancel_requested, [res |-> "Ok", val |-> 0, guest |-> inner.guest]).sb
                /\ cancel_requested' = MUS_call(inner, cancel_requested, [res |-> "Ok", val |-> 0, guest |-> inner.guest]).cr
                /\ last' = Result("call_guest_function", fn, arg, e, 0, NoSnapshot)
                /\ UNCHANGED call
    /\ UNCHANGED <<host_funcs, phase, needs_restore, runtime_snapshot, snaps>>

\* one iteration of the KeepCPUBusy loop inside the guest
guest_busy_step ==
    /\ call.pc = "running"
    /\ call.fn = "KeepCPUBusy"
    /\ call.fn \in Exports(inner.guest.module)
    /\ call.progress < BusySteps
    /\ inner' = [inner EXCEPT !.guest.mem = Bump(@), !.guest.allocs = <<>>]
    /\ call' = [call EXCEPT !.progress = @ + 1]
    /\ UNCHANGED <<host_funcs, phase, cancel_requested, needs_restore, runtime_snapshot,
                   snaps, last>>

\* the guest call ends by itself: guest_dispatch_function returns (normally
\* or with an error) or the guest aborts
call_returns ==
    /\ call.pc = "running"
    /\ ~cancel_requested
    /\ (call.fn = "KeepCPUBusy" /\ call.fn \in Exports(inner.guest.module)
            => call.progress = BusySteps)
    /\ \E out \in guest_dispatch_function(inner.guest, call.fn, call.arg) :
          /\ inner' = MUS_call(inner, FALSE, drop_guards(out)).sb
          /\ last' = Result("call_guest_function", call.fn, call.arg,
                            out.res, out.val, NoSnapshot)
    /\ call' = NoCall
    /\ UNCHANGED <<host_funcs, phase, cancel_requested, needs_restore, runtime_snapshot,
                   snaps>>

\* variant: the kill is consumed but the guest call is reported as completed
call_cancelled_unnoticed ==
    /\ call.pc = "running"
    /\ cancel_requested
    /\ cancel_requested' = FALSE
    /\ last' = Result("call_guest_function", call.fn, call.arg, "Ok", 0, NoSnapshot)
    /\ call' = NoCall
    /\ UNCHANGED <<host_funcs, phase, inner, needs_restore, runtime_snapshot, snaps>>

\* the kill signal forces the vCPU out of the guest: the call in progress
\* ends with ExecutionCanceledByHost, the sandbox is poisoned and the kill
\* is consumed
call_cancelled ==
    /\ call.pc \in {"running", "blocked"}
    /\ cancel_requested
    /\ inner' = [inner EXCEPT !.poisoned = TRUE]
    /\ cancel_requested' = FALSE
    /\ last' = Result("call_guest_function", call.fn, call.arg,
                      "ExecutionCanceledByHost", 0, NoSnapshot)
    /\ call' = NoCall
    /\ UNCHANGED <<host_funcs, phase, needs_restore, runtime_snapshot, snaps>>

\* InterruptHandle::kill, from any thread, on the handle of the Loaded sandbox
kill ==
    /\ phase = "Loaded"
    /\ ~cancel_requested
    /\ cancel_requested' = TRUE
    /\ UNCHANGED <<host_funcs, phase, inner, needs_restore, runtime_snapshot, snaps, call, last>>

\* LoadedWasmSandbox::snapshot; the caller keeps at most MaxSnaps snapshots
snapshot ==
    /\ Idle
    /\ LET r == LoadedWasmSandbox_snapshot(inner)
       IN  /\ last' = Result("snapshot", "none", 0, r.res, 0, r.snap)
           /\ IF r.res # "Ok"
              THEN snaps' = snaps
              ELSE IF Cardinality(snaps \cup {r.snap}) <= MaxSnaps
              THEN snaps' = snaps \cup {r.snap}
              ELSE \E old \in snaps : snaps' = (snaps \ {old}) \cup {r.snap}
    /\ UNCHANGED <<host_funcs, phase, inner, cancel_requested, needs_restore,
                   runtime_snapshot, call>>

\* LoadedWasmSandbox::restore
restore(s) ==
    /\ Idle
    /\ LET r == LoadedWasmSandbox_restore(inner, s)
       IN  /\ inner' = r.sb
           /\ last' = Result("restore", "none", 0, r.res, 0, s)
    /\ UNCHANGED <<host_funcs, phase, cancel_requested, needs_restore, runtime_snapshot,
                   snaps, call>>

\* LoadedWasmSandbox::unload_module: WasmSandbox::new_from_loaded
unload_module ==
    /\ Idle
    /\ LET w == new_from_loaded(inner, runtime_snapshot)
       IN  /\ phase' = "Runtime"
           /\ inner' = w.inner
           /\ runtime_snapshot' = w.snapshot
           /\ needs_restore' = w.needs_restore
    /\ last' = Result("unload_module", "none", 0, "Ok", 0, NoSnapshot)
    /\ UNCHANGED <<host_funcs, cancel_requested, snaps, call>>

\* Drop of the sandbox value in any phase
drop ==
    /\ phase # "None"
    /\ call.pc = "idle"
    /\ Dropped(Result("drop", "none", 0, "Ok", 0, NoSnapshot))

(* ------------------------------- Next --------------------------------- *)
Next ==
    \/ build /\ UNCHANGED <<dvars, hvars, xvars>>
    \/ \E h \in HostFns : register_host_function(h) /\ UNCHANGED <<dvars, hvars, xvars>>
    \/ load_runtime /\ UNCHANGED <<dvars, hvars, xvars>>
    \/ \E m \in Modules : load_module(m) /\ UNCHANGED <<dvars, hvars, xvars>>
    \/ \E m \in Modules : load_module_by_mapping(m) /\ UNCHANGED <<dvars, hvars, xvars>>
    \/ \E m \in Modules : load_module_from_buffer(m) /\ UNCHANGED <<dvars, hvars, xvars>>
    \/ \E s \in snaps \cup {ForeignSnapshot} : load_from_snapshot(s) /\ UNCHANGED <<dvars, hvars, xvars>>
    \/ \E fn \in FnNames : \E arg \in ArgsOf(fn) : call_guest_function(fn, arg) /\ UNCHANGED <<dvars, hvars, xvars>>
    \/ guest_busy_step /\ UNCHANGED <<dvars, hvars, xvars>>
    \/ call_returns /\ UNCHANGED <<dvars, hvars, xvars>>
    \/ call_cancelled /\ UNCHANGED <<dvars, hvars, xvars>>
    \/ kill /\ UNCHANGED <<dvars, hvars, xvars>>
    \/ snapshot /\ UNCHANGED <<dvars, hvars, xvars>>
    \/ \E s \in snaps \cup {ForeignSnapshot} : restore(s) /\ UNCHANGED <<dvars, hvars, xvars>>
    \/ unload_module /\ UNCHANGED <<dvars, hvars, xvars>>
    \/ drop /\ UNCHANGED <<dvars, hvars, xvars>>

Spec == Init /\ [][Next]_vars

\* The hypervisor forces a VM exit within bounded time once a kill is
\* requested, and a running guest keeps making progress
FairSpec ==
    /\ Spec
    /\ WF_vars(call_cancelled /\ UNCHANGED <<dvars, hvars, xvars>>)
    /\ WF_vars(call_returns /\ UNCHANGED <<dvars, hvars, xvars>>)
    /\ WF_vars(guest_busy_step /\ UNCHANGED <<dvars, hvars, xvars>>)

TypeOK ==
    /\ phase \in {"None", "Proto", "Runtime", "Loaded"}
    /\ host_funcs \subseteq HostFns \cup {"HostPrint"}
    /\ inner.poisoned \in BOOLEAN
    /\ cancel_requested \in BOOLEAN
    /\ needs_restore \in BOOLEAN
    /\ Cardinality(snaps) <= MaxSnaps
    /\ call.pc \in {"idle", "running", "blocked"}

(* ================== the load operations on their own ================== *)
LoadModules == {"RunWasm", "HostFunction"}

LoadInit == NoSandbox /\ NoDispatch /\ NoHostCall /\ NoExtras

LoadNext ==
    \/ build /\ UNCHANGED <<dvars, hvars, xvars>>
    \/ register_host_function("HostFuncWithBufferAndLength")
            /\ UNCHANGED <<dvars, hvars, xvars>>
    \/ load_runtime /\ UNCHANGED <<dvars, hvars, xvars>>
    \/ \E m \in LoadModules, p \in LoadPaths :
            load_module_file(m, p) /\ UNCHANGED <<dvars, hvars, pvars, bvars, mvars, tvars, gvars, cvars, evars>>
    \/ \E m \in LoadModules, p \in LoadPaths :
            load_module_region(m, p) /\ UNCHANGED <<dvars, hvars, pvars, bvars, mvars, tvars, gvars, cvars, evars>>
    \/ \E m \in LoadModules :
            load_module_buffer(m) /\ UNCHANGED <<dvars, hvars, pvars, bvars, mvars, tvars, gvars, cvars, evars>>
    \/ call_guest_function("Abort", 4) /\ UNCHANGED <<dvars, hvars, xvars>>
    \/ call_returns /\ UNCHANGED <<dvars, hvars, xvars>>
    \/ unload_module /\ UNCHANGED <<dvars, hvars, xvars>>
    \/ drop /\ UNCHANGED <<dvars, hvars, xvars>>

LoadSpec == LoadInit /\ [][LoadNext]_vars

(* ==================== two sandboxes and the gauges ==================== *)
\* metrics::gauge!(..).increment(1) / .decrement(1)
gauge_increment(g, ph) == [g EXCEPT ![ph] = @ + 1]
gauge_decrement(g, ph) == [g EXCEPT ![ph] = @ - 1]

\* ProtoWasmSandbox::new
build_gauge(g) == gauge_increment(g, "Proto")

\* load_runtime(mut self): the ProtoWasmSandbox is dropped when the function
\* returns, with or without an error; WasmSandbox::new counts the new value
load_runtime_gauge(g, ok) ==
    IF ok THEN gauge_increment(gauge_decrement(g, "Proto"), "Runtime")
    ELSE gauge_decrement(g, "Proto")

\* variant: a load that fails leaves the Runtime gauge as it is
load_module_gauge_on_success(g, ok) ==
    IF ok THEN gauge_increment(gauge_decrement(g, "Runtime"), "Loaded")
    ELSE g

\* load_module(mut self) and the other loads: LoadedWasmSandbox::new counts
\* the new value in finalize_module_load, the WasmSandbox is dropped on
\* every return
load_module_gauge(g, ok) ==
    IF ok THEN gauge_increment(gauge_decrement(g, "Runtime"), "Loaded")
    ELSE gauge_decrement(g, "Runtime")

\* unload_module(mut self): new_from_loaded counts the WasmSandbox, the
\* LoadedWasmSandbox is dropped
unload_module_gauge(g) ==
    gauge_decrement(gauge_increment(g, "Runtime"), "Loaded")

\* Drop for ProtoWasmSandbox, WasmSandbox and LoadedWasmSandbox
drop_gauge(g, ph) == gauge_decrement(g, ph)

\* the sandbox being driven, as a value
ThisSandbox ==
    [phase |-> phase, host_funcs |-> host_funcs, inner |-> inner,
     cancel_requested |-> cancel_requested, needs_restore |-> needs_restore,
     runtime_snapshot |-> runtime_snapshot, snaps |-> snaps, call |-> call,
     last |-> last, thread |-> thread]

\* the caller turns to its other sandbox; both keep their state and thread
switch ==
    /\ other' = ThisSandbox
    /\ phase' = other.phase
    /\ host_funcs' = other.host_funcs
    /\ inner' = other.inner
    /\ cancel_requested' = other.cancel_requested
    /\ needs_restore' = other.needs_restore
    /\ runtime_snapshot' = other.runtime_snapshot
    /\ snaps' = other.snaps
    /\ call' = other.call
    /\ last' = other.last
    /\ thread' = other.thread
    /\ UNCHANGED gauge

Threads == {1, 2}

\* the sandbox value is sent to another thread between two operations
move_to_thread(t) ==
    /\ phase # "None"
    /\ call.pc = "idle"
    /\ t # thread
    /\ thread' = t
    /\ UNCHANGED <<svars, other, gauge>>

\* variant: the kill reaches every sandbox of the process
pair_kill_all ==
    /\ kill
    /\ other' = [other EXCEPT !.cancel_requested = TRUE]
    /\ UNCHANGED <<gauge, thread>>

\* InterruptHandle::kill acts on the sandbox the handle was taken from
pair_kill ==
    /\ kill
    /\ UNCHANGED <<other, gauge, thread>>

PairModules == {"RunWasm", "Corrupt"}

\* one operation on the sandbox being driven, the other sandbox aside
OwnStep ==
    \/ build
    \/ register_host_function("HostFuncWithBufferAndLength")
    \/ load_runtime
    \/ \E m \in PairModules : load_module(m)
    \/ call_guest_function("Abort", 4)
    \/ call_returns
    \/ call_cancelled
    \/ kill
    \/ unload_module
    \/ drop

PairInit == NoSandbox /\ NoDispatch /\ NoHostCall /\ NoExtras

PairNext ==
    \/ build /\ gauge' = build_gauge(gauge)
             /\ UNCHANGED <<other, thread, dvars, hvars, lvars, bvars, mvars, tvars, gvars, cvars, evars>>
    \/ register_host_function("HostFuncWithBufferAndLength")
             /\ UNCHANGED <<dvars, hvars, xvars>>
    \/ load_runtime /\ gauge' = load_runtime_gauge(gauge, phase' = "Runtime")
             /\ UNCHANGED <<other, thread, dvars, hvars, lvars, bvars, mvars, tvars, gvars, cvars, evars>>
    \/ \E m \in PairModules :
          load_module(m) /\ gauge' = load_module_gauge(gauge, phase' = "Loaded")
             /\ UNCHANGED <<other, thread, dvars, hvars, lvars, bvars, mvars, tvars, gvars, cvars, evars>>
    \/ call_guest_function("Abort", 4) /\ UNCHANGED <<dvars, hvars, xvars>>
    \/ call_returns /\ UNCHANGED <<dvars, hvars, xvars>>
    \/ call_cancelled /\ UNCHANGED <<dvars, hvars, xvars>>
    \/ pair_kill /\ UNCHANGED <<dvars, hvars, lvars, bvars, mvars, tvars, gvars, cvars, evars>>
    \/ unload_module /\ gauge' = unload_module_gauge(gauge)
             /\ UNCHANGED <<other, thread, dvars, hvars, lvars, bvars, mvars, tvars, gvars, cvars, evars>>
    \/ drop /\ gauge' = drop_gauge(gauge, phase)
             /\ UNCHANGED <<other, thread, dvars, hvars, lvars, bvars, mvars, tvars, gvars, cvars, evars>>
    \/ switch /\ UNCHANGED <<dvars, hvars, lvars, bvars, mvars, tvars, gvars, cvars, evars>>
    \/ \E t \in Threads :
          move_to_thread(t) /\ UNCHANGED <<dvars, hvars, lvars, bvars, mvars, tvars, gvars, cvars, evars>>

PairSpec == PairInit /\ [][PairNext]_vars

(* ============================ SandboxBuilder ========================== *)
\* sizes a caller passes to a setter whose floor is min: below the floor,
\* the floor itself and two sizes above it
SizesAround(min) == {min - 1, min, min + 4096, min + 8192}

\* with_guest_input_buffer_size: the size is set when it exceeds the floor
with_guest_input_buffer_size(v) ==
    /\ config' = IF v > MIN_INPUT_DATA_SIZE THEN [config EXCEPT !.input = v]
                 ELSE config
    /\ passed' = [passed EXCEPT !.input = v]

\* with_guest_stack_size: the size is set when it exceeds the floor
with_guest_stack_size(v) ==
    /\ config' = IF v > MIN_STACK_SIZE THEN [config EXCEPT !.stack = v]
                 ELSE config
    /\ passed' = [passed EXCEPT !.stack = v]

\* with_guest_heap_size: the size is set when it exceeds the floor
with_guest_heap_size(v) ==
    /\ config' = IF v > MIN_HEAP_SIZE THEN [config EXCEPT !.heap = v]
                 ELSE config
    /\ passed' = [passed EXCEPT !.heap = v]

\* with_guest_error_buffer_size: when the size exceeds the floor, the
\* floor is what is written to the configuration
with_guest_error_buffer_size(v) ==
    /\ config' = IF v > MIN_GUEST_ERROR_BUFFER_SIZE
                 THEN [config EXCEPT !.error = MIN_GUEST_ERROR_BUFFER_SIZE]
                 ELSE config
    /\ passed' = [passed EXCEPT !.error = v]

BuilderInit == NoSandbox /\ NoDispatch /\ NoHostCall /\ NoExtras

BuilderNext ==
    \/ \E v \in SizesAround(MIN_INPUT_DATA_SIZE) :
          with_guest_input_buffer_size(v)
             /\ UNCHANGED <<svars, dvars, hvars, lvars, pvars, mvars, tvars, gvars, cvars, evars>>
    \/ \E v \in SizesAround(MIN_STACK_SIZE) :
          with_guest_stack_size(v)
             /\ UNCHANGED <<svars, dvars, hvars, lvars, pvars, mvars, tvars, gvars, cvars, evars>>
    \/ \E v \in SizesAround(MIN_HEAP_SIZE) :
          with_guest_heap_size(v)
             /\ UNCHANGED <<svars, dvars, hvars, lvars, pvars, mvars, tvars, gvars, cvars, evars>>
    \/ \E v \in SizesAround(MIN_GUEST_ERROR_BUFFER_SIZE) :
          with_guest_error_buffer_size(v)
             /\ UNCHANGED <<svars, dvars, hvars, lvars, pvars, mvars, tvars, gvars, cvars, evars>>

BuilderSpec == BuilderInit /\ [][BuilderNext]_vars

(* ======================= platform layer (guest) ======================= *)
\* page_fault_address & !0xFFF
page_align(addr) == addr - (addr % OS_PAGE_SIZE)

\* variant: every fault in the window is serviced, whatever its error code
page_fault_handler_any_code(error_code, addr, pt) ==
    IF addr >= FIRST_VADDR
    THEN [handled |-> TRUE,
          page_table |-> {e \in pt : e.base # page_align(addr)}
                           \cup {[base |-> page_align(addr), data |-> "zero"]}]
    ELSE [handled |-> FALSE, page_table |-> pt]

\* page_fault_handler: a fault with the present bit clear at or above
\* 0x100_0000_0000 gets a new physical page mapped at the page-aligned
\* address and zeroed, and is retried; any other fault is not handled
page_fault_handler(error_code, addr, pt) ==
    IF error_code % 2 = 0 /\ addr >= FIRST_VADDR
    THEN [handled |-> TRUE,
          page_table |-> {e \in pt : e.base # page_align(addr)}
                           \cup {[base |-> page_align(addr), data |-> "zero"]}]
    ELSE [handled |-> FALSE, page_table |-> pt]

\* the module image and the guest binary are mapped by the host
HostMapped(addr) == page_align(addr) = page_align(MAPPED_BINARY_VA)
Present(addr) == HostMapped(addr) \/ \E e \in page_table : e.base = page_align(addr)

\* addresses the guest touches: null, the image, both sides of the start of
\* the window, a second page and the top of the address space
FaultAddrs ==
    {0, MAPPED_BINARY_VA, FIRST_VADDR - 1, FIRST_VADDR, FIRST_VADDR + 1,
     FIRST_VADDR + OS_PAGE_SIZE, Pow2(AddrBits) - 1}

\* #PF: the CPU sets bit 0 of the error code exactly when the page is
\* present, bit 1 when the access is a write
page_fault(addr, write) ==
    LET error_code == (IF Present(addr) THEN 1 ELSE 0) + 2 * write
        r == page_fault_handler(error_code, addr, page_table)
    IN  /\ pf' = [addr |-> addr, error_code |-> error_code,
                  handled |-> r.handled, seen |-> TRUE]
        /\ page_table' = r.page_table
        /\ UNCHANGED <<first_vaddr, regions, mmap_ret>>

\* the guest writes to a page mapped in the window
guest_write(addr) ==
    /\ \E e \in page_table : e.base = page_align(addr)
    /\ page_table' = {e \in page_table : e.base # page_align(addr)}
                        \cup {[base |-> page_align(addr), data |-> "written"]}
    /\ pf' = NoFault
    /\ UNCHANGED <<first_vaddr, regions, mmap_ret>>

MmapSizes == {1, MMAP_STRIDE, MMAP_STRIDE + 1}

\* wasmtime_mmap_new: panics on a size above the stride, else returns
\* FIRST_VADDR.fetch_add(stride), which wraps around at 2^64
wasmtime_mmap_new(size) ==
    /\ Len(regions) < MaxMmaps
    /\ IF size > MMAP_STRIDE
       THEN /\ mmap_ret' = [op |-> "wasmtime_mmap_new", size |-> size,
                            ret |-> -1, base |-> 0]
            /\ UNCHANGED <<first_vaddr, regions>>
       ELSE /\ mmap_ret' = [op |-> "wasmtime_mmap_new", size |-> size,
                            ret |-> 0, base |-> first_vaddr]
            /\ regions' = Append(regions, first_vaddr)
            /\ first_vaddr' = (first_vaddr + MMAP_STRIDE) % Pow2(AddrBits)
    /\ UNCHANGED <<page_table, pf>>

\* wasmtime_mmap_remap: panics on a size above the stride, else a no-op
wasmtime_mmap_remap(i, size) ==
    /\ mmap_ret' = [op |-> "wasmtime_mmap_remap", size |-> size,
                    ret |-> IF size > MMAP_STRIDE THEN -1 ELSE 0,
                    base |-> regions[i]]
    /\ UNCHANGED <<first_vaddr, regions, page_table, pf>>

\* wasmtime_munmap: a no-op
wasmtime_munmap(i, size) ==
    /\ mmap_ret' = [op |-> "wasmtime_munmap", size |-> size, ret |-> 0,
                    base |-> regions[i]]
    /\ UNCHANGED <<first_vaddr, regions, page_table, pf>>

PlatformInit == NoSandbox /\ NoDispatch /\ NoHostCall /\ NoExtras

PlatformNext ==
    \/ \E a \in FaultAddrs, w \in {0, 1} :
          page_fault(a, w) /\ UNCHANGED <<svars, dvars, hvars, lvars, pvars, bvars, tvars, gvars, cvars, evars>>
    \/ \E a \in FaultAddrs :
          guest_write(a) /\ UNCHANGED <<svars, dvars, hvars, lvars, pvars, bvars, tvars, gvars, cvars, evars>>
    \/ \E n \in MmapSizes :
          wasmtime_mmap_new(n) /\ UNCHANGED <<svars, dvars, hvars, lvars, pvars, bvars, tvars, gvars, cvars, evars>>
    \/ \E i \in 1..Len(regions), n \in MmapSizes :
          wasmtime_mmap_remap(i, n)
             /\ UNCHANGED <<svars, dvars, hvars, lvars, pvars, bvars, tvars, gvars, cvars, evars>>
    \/ \E i \in 1..Len(regions) :
          wasmtime_munmap(i, MMAP_STRIDE)
             /\ UNCHANGED <<svars, dvars, hvars, lvars, pvars, bvars, tvars, gvars, cvars, evars>>

PlatformSpec == PlatformInit /\ [][PlatformNext]_vars

(* ===================== one dispatch, step by step ===================== *)
\* The guest side of call_guest_function in a Loaded sandbox whose module
\* exports malloc, free and an Echo function for every wire type.  Echo
\* copies its argument into a fresh allocation of its own, releases the
\* parameter buffer it was handed and returns the copy; a VecBytes is
\* returned behind its length.
GuestFns == {"Echo"}

GuestEcho(h, rt, ws) ==
    IF rt = "String"
    THEN LET m == malloc_write(h, Append(read_cstr(h, ws[1].v).bytes, 0))
         IN  [val |-> I32(m.addr), heap |-> free(m.heap, ws[1].v)]
    ELSE IF rt = "VecBytes"
    THEN LET b == read(h, ws[1].v, ws[2].v).bytes
             m == malloc_write(h, <<Len(b)>> \o b)
         IN  [val |-> I32(m.addr), heap |-> free(m.heap, ws[1].v)]
    ELSE [val |-> ws[1], heap |-> h]

\* the FunctionCall a host sends to echo v; a VecBytes goes with its length
EchoCall(name, v) ==
    [function_name |-> name,
     parameters |-> IF v.tag = "VecBytes" THEN <<v, Tagged("Int", Len(v.v))>>
                    ELSE <<v>>,
     expected_return_type |-> v.tag]

RECURSIVE free_all(_, _)
free_all(h, tr) == IF tr = <<>> THEN h ELSE free_all(free(h, Head(tr)), Tail(tr))

Range(q) == {q[i] : i \in 1..Len(q)}

\* the host hands a FunctionCall to guest_dispatch_function
dispatch_enter(c) ==
    /\ d_pc = "host"
    /\ d_pc' = "free"
    /\ fc' = c
    /\ w_vals' = <<>>
    /\ ret' = NoRet
    /\ freed' = {}
    /\ UNCHANGED <<heap, tracker>>

\* variant: the dispatch goes on without releasing what is tracked
dispatch_free_return_value_allocations_skipped ==
    /\ d_pc = "free"
    /\ d_pc' = "get_func"
    /\ UNCHANGED <<heap, tracker, fc, w_vals, ret, freed>>

\* marshal::free_return_value_allocations: the tracker is drained and every
\* address in it released
dispatch_free_return_value_allocations ==
    /\ d_pc = "free"
    /\ d_pc' = "get_func"
    /\ heap' = free_all(heap, tracker)
    /\ tracker' = <<>>
    /\ freed' = Range(tracker)
    /\ UNCHANGED <<fc, w_vals, ret>>

\* instance.get_func
dispatch_get_func ==
    /\ d_pc = "get_func"
    /\ IF fc.function_name \in GuestFns
       THEN d_pc' = "params" /\ ret' = ret
       ELSE d_pc' = "host" /\ ret' = [res |-> "GuestError", ret |-> Tagged("Void", 0)]
    /\ UNCHANGED <<heap, tracker, fc, w_vals, freed>>

\* the hl_param_to_val loop; a panic aborts the guest, an error returns
dispatch_params ==
    /\ d_pc = "params"
    /\ LET r == hl_params_to_vals(heap, fc.parameters, 1, <<>>)
       IN  /\ heap' = r.heap
           /\ w_vals' = r.vals
           /\ d_pc' = IF r.res = "Ok" THEN "call"
                      ELSE IF r.res = "GuestAborted" THEN "aborted" ELSE "host"
           /\ ret' = IF r.res = "Ok" THEN ret
                     ELSE [res |-> r.res, ret |-> Tagged("Void", 0)]
    /\ UNCHANGED <<tracker, fc, freed>>

\* func.call
dispatch_func_call ==
    /\ d_pc = "call"
    /\ LET r == GuestEcho(heap, fc.expected_return_type, w_vals)
       IN  heap' = r.heap /\ w_vals' = <<r.val>>
    /\ d_pc' = "result"
    /\ UNCHANGED <<tracker, fc, ret, freed>>

\* marshal::val_to_hl_result, and the return to the host
dispatch_result ==
    /\ d_pc = "result"
    /\ LET r == val_to_hl_result(heap, tracker, fc.expected_return_type, w_vals[1])
       IN  /\ tracker' = r.tracker
           /\ ret' = [res |-> r.res, ret |-> r.ret]
    /\ d_pc' = "host"
    /\ UNCHANGED <<heap, fc, w_vals, freed>>

\* after a guest abort the host restores the snapshot taken at load
dispatch_restore ==
    /\ d_pc = "aborted"
    /\ d_pc' = "host"
    /\ heap' = EmptyHeap
    /\ tracker' = <<>>
    /\ w_vals' = <<>>
    /\ freed' = {}
    /\ UNCHANGED <<fc, ret>>

DispatchInit == NoSandbox /\ NoDispatch /\ NoHostCall /\ NoExtras

DispatchNext ==
    \/ \E n \in GuestFns \cup {"Missing"}, t \in WireTypes : \E v \in ValuesOf(t) :
            dispatch_enter(EchoCall(n, Tagged(t, v))) /\ UNCHANGED <<svars, hvars, xvars>>
    \/ dispatch_free_return_value_allocations /\ UNCHANGED <<svars, hvars, xvars>>
    \/ dispatch_get_func /\ UNCHANGED <<svars, hvars, xvars>>
    \/ dispatch_params /\ UNCHANGED <<svars, hvars, xvars>>
    \/ dispatch_func_call /\ UNCHANGED <<svars, hvars, xvars>>
    \/ dispatch_result /\ UNCHANGED <<svars, hvars, xvars>>
    \/ dispatch_restore /\ UNCHANGED <<svars, hvars, xvars>>

DispatchSpec == DispatchInit /\ [][DispatchNext]_vars

(* ===================== a host function called by the guest ============ *)
\* the signatures host functions are registered with
HostCallParameterTypes ==
    {<<"Int">>, <<"Bool">>, <<"String">>, <<"VecBytes">>, <<"VecBytes", "Int">>,
     <<"Int", "VecBytes", "Int">>, <<"VecBytes", "Int", "Int">>,
     <<"Bool", "VecBytes", "Int">>, <<"VecBytes", "Int", "String">>}
HostCallDefinitions ==
    {[function_name |-> "HostFunc", parameter_types |-> pts, return_type |-> rt] :
        pts \in HostCallParameterTypes, rt \in {"Int", "Bool"}}

\* the engine hands hostfuncs::call arguments of the FuncType's types
ValsOf(t) ==
    IF t = "I32" THEN {I32(n) : n \in -1..2}
    ELSE IF t = "I64" THEN {I64(0)}
    ELSE IF t = "F32" THEN {F32(0)} ELSE {F64(0)}

EngineArgs(types) ==
    {ps \in [1..Len(types) -> UNION {ValsOf(t) : t \in Range(types)}] :
        \A i \in 1..Len(types) : ps[i] \in ValsOf(types[i])}

\* the guest memory the arguments point into
HostCallHeap ==
    [a \in Addrs |-> IF a = 1 THEN [live |-> TRUE, bytes |-> <<7, 8>>]
                    ELSE IF a = 2 THEN [live |-> TRUE, bytes |-> <<65, 0>>]
                    ELSE FreeBuf]

\* what the host function called may hand back
HostReturns(rt) ==
    IF rt = "Bool" THEN {Tagged("Bool", b) : b \in BOOLEAN}
    ELSE {Tagged("Int", n) : n \in {0, 1}}

\* hostfuncs::call: the arguments are marshalled, the host function is
\* called and its return value marshalled back
host_call ==
    /\ hc_pc = "guest"
    /\ hc_pc' = "done"
    /\ LET r == val_to_hl_params(heap, hc_ps, 1, NoLen, hc_def.parameter_types, 1, <<>>)
       IN  IF r.res # "Ok"
           THEN /\ hc_out' = [res |-> r.res, params |-> r.params,
                              consumed |-> r.consumed, rv |-> Tagged("Void", 0),
                              rs |-> <<>>]
                /\ heap' = heap
           ELSE \E rv \in HostReturns(hc_def.return_type) :
                    LET v == hl_return_to_val(heap, rv)
                    IN  /\ hc_out' = [res |-> v.res, params |-> r.params,
                                      consumed |-> r.consumed, rv |-> rv,
                                      rs |-> <<v.val>>]
                        /\ heap' = v.heap
    /\ UNCHANGED <<hc_def, hc_ps>>

\* only a host function init_wasm_runtime could link is ever called
HostCallInit ==
    /\ NoSandbox
    /\ d_pc = "host" /\ tracker = <<>> /\ fc = NoFunctionCall /\ w_vals = <<>>
    /\ ret = NoRet /\ freed = {}
    /\ heap = HostCallHeap
    /\ hc_pc = "guest"
    /\ hc_def \in {d \in HostCallDefinitions : hostfunc_type(d).res = "Ok"}
    /\ hc_ps \in EngineArgs(hostfunc_type(hc_def).params)
    /\ hc_out = NoHostOut
    /\ NoExtras

HostCallNext ==
    host_call /\ UNCHANGED <<svars, d_pc, tracker, fc, w_vals, ret, freed, xvars>>

HostCallSpec == HostCallInit /\ [][HostCallNext]_vars

(* ============ a host function from declaration to return ============== *)
\* parameter types a declaration is built from, and the return types
DeclaredTypes == {"Int", "String", "VecBytes"}
ReturnTypes == WireTypes \cup {"Void"}
ParameterLists == UNION {[1..k -> DeclaredTypes] : k \in 0..MaxParams}

\* init_wasm_runtime, for one host function: hostfunc_type builds the
\* FuncType it is linked under, or refuses it
link_host_function ==
    /\ ht_pc = "declared"
    /\ ht_type' = hostfunc_type(ht_def)
    /\ ht_pc' = IF hostfunc_type(ht_def).res = "Ok" THEN "linked" ELSE "refused"
    /\ UNCHANGED <<ht_def, ht_val, heap>>

\* hostfuncs::call from the host function's return on: the value has the
\* declared return type (asserted), a Void function stores nothing, any
\* other value goes through hl_return_to_val into rs[0]
host_function_returns ==
    /\ ht_pc = "linked"
    /\ ht_def.return_type # "Void"
    /\ \E v \in ValuesOf(ht_def.return_type) :
          LET r == hl_return_to_val(heap, Tagged(ht_def.return_type, v))
          IN  /\ ht_val' = [res |-> r.res, val |-> r.val]
              /\ heap' = r.heap
    /\ ht_pc' = "returned"
    /\ UNCHANGED <<ht_def, ht_type>>

TypeInit ==
    /\ NoSandbox /\ NoDispatch /\ NoHostCall
    /\ load_trace = NoLoadTrace
    /\ other = NoOther /\ gauge = NoGauges /\ thread = 1
    /\ config = NewConfig /\ passed = NothingPassed
    /\ first_vaddr = FIRST_VADDR /\ regions = <<>> /\ page_table = {}
    /\ pf = NoFault /\ mmap_ret = NoMmapCall
    /\ ht_pc = "declared"
    /\ ht_def \in {[function_name |-> "HostFunc", parameter_types |-> pts,
                     return_type |-> rt] :
                        pts \in ParameterLists, rt \in ReturnTypes}
    /\ ht_type = NoFuncType
    /\ ht_val = NoVal
    /\ NoGuestEntries
    /\ counters = NoCounters
    /\ NoTraps

TypeNext ==
    \/ link_host_function
          /\ UNCHANGED <<svars, d_pc, tracker, fc, w_vals, ret, freed, hvars,
                         lvars, pvars, bvars, mvars, gvars, cvars, evars>>
    \/ host_function_returns
          /\ UNCHANGED <<svars, d_pc, tracker, fc, w_vals, ret, freed, hvars,
                         lvars, pvars, bvars, mvars, gvars, cvars, evars>>

TypeSpec == TypeInit /\ [][TypeNext]_vars

(* ======================== guest trap handler ========================== *)
\* variant: the handler redirects whatever the exception is
wasmtime_trap_handler_any_vector(exception_number, frame, requested_handler) ==
    IF requested_handler # 0
    THEN [handled |-> TRUE,
          frame |-> [rip |-> requested_handler,
                     gprs |-> [frame.gprs EXCEPT ![9] = frame.rip,
                                                 ![10] = frame.gprs[8],
                                                 ![11] = 0, ![12] = 0]]]
    ELSE [handled |-> FALSE, frame |-> frame]

\* wasmtime_trap_handler: with a handler requested and on #UD (vector 6) the
\* saved rip is replaced by the handler, gprs[9] receives the original rip,
\* gprs[10] the value of gprs[8], gprs[11] and gprs[12] zero, and the
\* exception is reported handled; otherwise nothing is written
wasmtime_trap_handler(exception_number, frame, requested_handler) ==
    IF requested_handler # 0 /\ exception_number = 6
    THEN [handled |-> TRUE,
          frame |-> [rip |-> requested_handler,
                     gprs |-> [frame.gprs EXCEPT ![9] = frame.rip,
                                                 ![10] = frame.gprs[8],
                                                 ![11] = 0, ![12] = 0]]]
    ELSE [handled |-> FALSE, frame |-> frame]

\* addresses of the functions the engine may register (never null)
TrapHandlers == {70, 71}
\* exception vectors: #DE, #UD, #GP, #PF
Vectors == {0, 6, 13, 14}
\* what the guest may have in its registers when it is interrupted; every
\* register holds a value no other register holds
GuestFrames ==
    {[rip |-> 40, gprs |-> [i \in GprIndex |-> i + 1]],
     [rip |-> 41, gprs |-> [i \in GprIndex |-> 30 - i]]}

\* wasmtime_init_traps: the engine registers its handler
wasmtime_init_traps(handler) ==
    /\ trap' = [trap EXCEPT !.requested_handler = handler]
    /\ UNCHANGED trap_last

\* the guest runs on and is about to be interrupted with frame f
guest_runs(f) ==
    /\ trap' = [trap EXCEPT !.frame = f]
    /\ trap_last' = [trap_last EXCEPT !.seen = FALSE]

\* exception n is delivered to the trap handler
exception(n) ==
    LET r == wasmtime_trap_handler(n, trap.frame, trap.requested_handler)
    IN  /\ trap' = [trap EXCEPT !.frame = r.frame]
        /\ trap_last' = [exception_number |-> n, handled |-> r.handled,
                         seen |-> TRUE,
                         requested_handler |-> trap.requested_handler,
                         before |-> trap.frame]

TrapInit == NoSandbox /\ NoDispatch /\ NoHostCall /\ NoExtras

TrapNext ==
    \/ \E h \in TrapHandlers :
          wasmtime_init_traps(h)
             /\ UNCHANGED <<svars, dvars, hvars, lvars, pvars, bvars, mvars, tvars, gvars, cvars>>
    \/ \E f \in GuestFrames :
          guest_runs(f)
             /\ UNCHANGED <<svars, dvars, hvars, lvars, pvars, bvars, mvars, tvars, gvars, cvars>>
    \/ \E n \in Vectors :
          exception(n)
             /\ UNCHANGED <<svars, dvars, hvars, lvars, pvars, bvars, mvars, tvars, gvars, cvars>>

TrapSpec == TrapInit /\ [][TrapNext]_vars

(* ====================== load and unload counters ====================== *)
\* LoadedWasmSandbox::new counts the Loaded sandbox it creates
LoadedWasmSandbox_new_counters(c) == [c EXCEPT !.loaded_total = @ + 1]

\* finalize_module_load: the load counter, then LoadedWasmSandbox::new
finalize_module_load_counters(c) ==
    LoadedWasmSandbox_new_counters([c EXCEPT !.loads = @ + 1])

\* unload_module counts when new_from_loaded returned Ok
unload_module_counters(c) == [c EXCEPT !.unloads = @ + 1]

\* a load operation that ends in finalize_module_load when the guest load
\* call succeeded
counted_load(load) ==
    /\ counters.loaded_total < MaxLoads
    /\ load
    /\ counters' = IF phase' = "Loaded"
                   THEN finalize_module_load_counters(counters)
                   ELSE counters

\* load_from_snapshot: restore, then LoadedWasmSandbox::new
counted_load_from_snapshot(s) ==
    /\ counters.loaded_total < MaxLoads
    /\ load_from_snapshot(s)
    /\ counters' = LoadedWasmSandbox_new_counters(counters)

counted_unload_module ==
    /\ unload_module
    /\ counters' = unload_module_counters(counters)

CounterModules == {"RunWasm", "Corrupt"}

CounterInit == NoSandbox /\ NoDispatch /\ NoHostCall /\ NoExtras

CounterNext ==
    \/ build
          /\ UNCHANGED <<dvars, hvars, lvars, pvars, bvars, mvars, tvars, gvars, cvars, evars>>
    \/ load_runtime
          /\ UNCHANGED <<dvars, hvars, lvars, pvars, bvars, mvars, tvars, gvars, cvars, evars>>
    \/ \E m \in CounterModules :
          counted_load(load_module(m))
             /\ UNCHANGED <<dvars, hvars, lvars, pvars, bvars, mvars, tvars, gvars, evars>>
    \/ \E m \in CounterModules :
          counted_load(load_module_by_mapping(m))
             /\ UNCHANGED <<dvars, hvars, lvars, pvars, bvars, mvars, tvars, gvars, evars>>
    \/ \E m \in CounterModules :
          counted_load(load_module_from_buffer(m))
             /\ UNCHANGED <<dvars, hvars, lvars, pvars, bvars, mvars, tvars, gvars, evars>>
    \/ \E s \in snaps \cup {ForeignSnapshot} :
          counted_load_from_snapshot(s)
             /\ UNCHANGED <<dvars, hvars, lvars, pvars, bvars, mvars, tvars, gvars, evars>>
    \/ snapshot
          /\ UNCHANGED <<dvars, hvars, lvars, pvars, bvars, mvars, tvars, gvars, cvars, evars>>
    \/ counted_unload_module
          /\ UNCHANGED <<dvars, hvars, lvars, pvars, bvars, mvars, tvars, gvars, evars>>
    \/ drop
          /\ UNCHANGED <<dvars, hvars, lvars, pvars, bvars, mvars, tvars, gvars, cvars, evars>>

CounterSpec == CounterInit /\ [][CounterNext]_vars

(* ================= the guest's statics, slot by slot =================== *)
\* what the host passes to a load entry point: the two parameters the
\* function matches on, parameters of other types, or none at all
EntryParams == {"ok", "mistyped", "missing"}
SlotModules == {"RunWasm", "HelloWorld", "HostFunction", "Corrupt"}
SlotHostFns ==
    {{}, {"HostFuncWithBufferAndLength"}, {"HostFuncWithBufferAndName"}}

\* init_wasm_runtime on the slots: engine and linker are stored after every
\* host function has been given its type
init_wasm_runtime_slots(s, hfs) ==
    IF \E h \in hfs : hostfunc_type(HostFunctionDefinition(h)).res # "Ok"
    THEN [res |-> "GuestError", slots |-> s]
    ELSE [res |-> "Ok",
          slots |-> [s EXCEPT !.engine = TRUE, !.linker_set = TRUE, !.linker = hfs]]

\* variant: the module is stored as soon as it is deserialized
load_wasm_module_slots_early(s, ps, m) ==
    IF ps = "missing" THEN [res |-> "GuestAborted", slots |-> s]
    ELSE IF ps = "mistyped" \/ ~s.engine
    THEN [res |-> "GuestFunctionParameterTypeMismatch", slots |-> s]
    ELSE IF ~s.linker_set THEN [res |-> "GuestError", slots |-> s]
    ELSE IF m \notin ValidModules \cup ImportingModules
    THEN [res |-> "GuestError", slots |-> s]
    ELSE IF Imports(m) \ s.linker # {}
    THEN [res |-> "GuestError", slots |-> [s EXCEPT !.module = m]]
    ELSE [res |-> "Ok",
          slots |-> [s EXCEPT !.module = m, !.store = m, !.instance = m]]

\* load_wasm_module / load_wasm_module_phys on the slots: parameters[0] and
\* [1] are indexed (a panic when absent) and matched together with the
\* engine slot; the linker is looked up; the module is deserialized, a
\* store created and the module instantiated; then the three slots are
\* assigned
load_wasm_module_slots(s, ps, m) ==
    IF ps = "missing" THEN [res |-> "GuestAborted", slots |-> s]
    ELSE IF ps = "mistyped" \/ ~s.engine
    THEN [res |-> "GuestFunctionParameterTypeMismatch", slots |-> s]
    ELSE IF ~s.linker_set THEN [res |-> "GuestError", slots |-> s]
    ELSE IF m \notin ValidModules \cup ImportingModules
    THEN [res |-> "GuestError", slots |-> s]
    ELSE IF Imports(m) \ s.linker # {}
    THEN [res |-> "GuestError", slots |-> s]
    ELSE [res |-> "Ok",
          slots |-> [s EXCEPT !.module = m, !.store = m, !.instance = m]]

\* guest entry InitWasmRuntime
InitWasmRuntime(hfs) ==
    /\ slots' = init_wasm_runtime_slots(slots, hfs).slots
    /\ slot_last' = [op |-> "InitWasmRuntime",
                     res |-> init_wasm_runtime_slots(slots, hfs).res,
                     before |-> slots]
    /\ UNCHANGED slot_snap

\* guest entry LoadWasmModule
LoadWasmModule(ps, m) ==
    /\ slots' = load_wasm_module_slots(slots, ps, m).slots
    /\ slot_last' = [op |-> "LoadWasmModule",
                     res |-> load_wasm_module_slots(slots, ps, m).res,
                     before |-> slots]
    /\ UNCHANGED slot_snap

\* guest entry LoadWasmModulePhys
LoadWasmModulePhys(ps, m) ==
    /\ slots' = load_wasm_module_slots(slots, ps, m).slots
    /\ slot_last' = [op |-> "LoadWasmModulePhys",
                     res |-> load_wasm_module_slots(slots, ps, m).res,
                     before |-> slots]
    /\ UNCHANGED slot_snap

\* the host snapshots the guest between two entries
slots_snapshot ==
    /\ slot_snap' = slots
    /\ slot_last' = [op |-> "snapshot", res |-> "Ok", before |-> slots]
    /\ UNCHANGED slots

\* the host restores the guest to the snapshot
slots_restore ==
    /\ slots' = slot_snap
    /\ slot_last' = [op |-> "restore", res |-> "Ok", before |-> slots]
    /\ UNCHANGED slot_snap

SlotInit == NoSandbox /\ NoDispatch /\ NoHostCall /\ NoExtras

SlotNext ==
    \/ \E hfs \in SlotHostFns :
          InitWasmRuntime(hfs)
             /\ UNCHANGED <<svars, dvars, hvars, lvars, pvars, bvars, mvars, tvars, cvars, evars>>
    \/ \E ps \in EntryParams, m \in SlotModules :
          LoadWasmModule(ps, m)
             /\ UNCHANGED <<svars, dvars, hvars, lvars, pvars, bvars, mvars, tvars, cvars, evars>>
    \/ \E ps \in EntryParams, m \in SlotModules :
          LoadWasmModulePhys(ps, m)
             /\ UNCHANGED <<svars, dvars, hvars, lvars, pvars, bvars, mvars, tvars, cvars, evars>>
    \/ slots_snapshot
          /\ UNCHANGED <<svars, dvars, hvars, lvars, pvars, bvars, mvars, tvars, cvars, evars>>
    \/ slots_restore
          /\ UNCHANGED <<svars, dvars, hvars, lvars, pvars, bvars, mvars, tvars, cvars, evars>>

SlotSpec == SlotInit /\ [][SlotNext]_vars

(* ============================== claims ================================ *)
\* a step in which a call_guest_function hands its result to the caller
CallEnds ==
    \/ call.pc = "running" /\ call'.pc = "idle"
    \/ /\ \E fn \in FnNames : \E arg \in ArgsOf(fn) : call_guest_function(fn, arg)
       /\ call'.pc = "idle"

\* C1: a call_guest_function made while the Loaded sandbox is poisoned
\* returns Err(PoisonedSandbox) at once, does not start the guest, and
\* leaves the guest state and the poisoned flag as they were
C1_PoisonedCallRefused ==
    [][ (Idle /\ is_poisoned
           /\ \E fn \in FnNames : \E arg \in ArgsOf(fn) : call_guest_function(fn, arg))
        => /\ last'.op = "call_guest_function"
           /\ last'.err = "PoisonedSandbox"
           /\ call'.pc = "idle"
           /\ inner' = inner ]_vars

C1_Witness ==
    /\ Idle
    /\ is_poisoned
    /\ last.op = "call_guest_function"
    /\ last.err = "PoisonedSandbox"
    /\ last.prev = "call_guest_function"

\* C2: a call on a healthy Loaded sandbox that ends abnormally returns the
\* original error, never PoisonedSandbox, and the sandbox is poisoned as
\* soon as it has returned; a sandbox becomes poisoned in no other way
C2_FirstErrorVerbatim ==
    [][ (phase = "Loaded" /\ phase' = "Loaded" /\ ~inner.poisoned)
        => /\ CallEnds =>
                /\ last'.op = "call_guest_function"
                /\ last'.err # "PoisonedSandbox"
                /\ (last'.err \in PoisonErrors <=> inner'.poisoned)
           /\ inner'.poisoned => CallEnds ]_vars

C2_Witness ==
    /\ Idle
    /\ is_poisoned
    /\ last.op = "call_guest_function"
    /\ last.err = "GuestAborted"

\* a step of one of the three module-loading operations on a valid module
LoadsValidModule ==
    \E m \in ValidModules :
        \/ load_module(m)
        \/ load_module_by_mapping(m)
        \/ load_module_from_buffer(m)

\* a step in which a guest call that ran undisturbed hands back its result
CallReturns == call.pc = "running" /\ ~cancel_requested /\ call'.pc = "idle"

\* C3: after a restore that succeeded on a poisoned Loaded sandbox the
\* sandbox is not poisoned, and the next call of a pure function the loaded
\* module exports, not disturbed by a kill, returns Ok with the function's
\* value
C3_RestoreRecovers ==
    [][ (phase = "Loaded" /\ last.op = "restore" /\ last.status = "Ok"
           /\ last.was_poisoned)
        => /\ ~inner.poisoned
           /\ (CallReturns /\ call.fn \in PureFns
                 /\ call.fn \in Exports(inner.guest.module))
              => /\ last'.status = "Ok"
                 /\ last'.val = FnResult(call.fn, call.arg) ]_vars

\* C4: after unload_module, with no kill pending, each of load_module,
\* load_module_by_mapping and load_module_from_buffer of a valid module
\* returns Ok with a Loaded sandbox that is not poisoned
C4_UnloadThenLoad ==
    [][ (phase = "Runtime" /\ last.op = "unload_module" /\ ~cancel_requested
           /\ LoadsValidModule)
        => /\ phase' = "Loaded"
           /\ last'.status = "Ok"
           /\ ~inner'.poisoned ]_vars

\* C5: when unload_module has returned the Runtime sandbox, the VM state is
\* the runtime snapshot taken at load_runtime and the VM is not poisoned
C5_UnloadRestores ==
    (phase = "Runtime" /\ last.op = "unload_module")
        => /\ inner.guest = runtime_snapshot.guest
           /\ ~inner.poisoned

\* C6: snapshot leaves the sandbox as it is; on a poisoned sandbox it
\* returns Err(PoisonedSandbox) and hands out no snapshot, on a healthy one
\* it returns Ok with a snapshot holding the whole current guest state
C6_SnapshotGuard ==
    [][ (Idle /\ snapshot)
        => /\ inner' = inner
           /\ IF inner.poisoned
              THEN /\ last'.err = "PoisonedSandbox"
                   /\ last'.snap = NoSnapshot
                   /\ snaps' = snaps
              ELSE /\ last'.status = "Ok"
                   /\ last'.snap = [sid |-> "this", guest |-> inner.guest]
                   /\ last'.snap \in snaps' ]_vars

C6_Witness ==
    /\ Idle
    /\ is_poisoned
    /\ last.op = "snapshot"
    /\ last.err = "PoisonedSandbox"
    /\ last.snap = NoSnapshot

\* C7: once kill has been requested while a guest call is in progress, the
\* call ends, it ends with Err(ExecutionCanceledByHost) and not with any
\* other result, and the sandbox is poisoned when it has ended
C7_KillEndsCall ==
    /\ [][ (call.pc = "running" /\ cancel_requested /\ call'.pc = "idle")
           => /\ last'.op = "call_guest_function"
              /\ last'.err = "ExecutionCanceledByHost"
              /\ inner'.poisoned ]_vars
    /\ (call.pc = "running" /\ cancel_requested)
           ~> /\ call.pc = "idle"
              /\ last.op = "call_guest_function"
              /\ last.err = "ExecutionCanceledByHost"
              /\ last.was_running
              /\ inner.poisoned

C7_Witness ==
    /\ Idle
    /\ is_poisoned
    /\ last.op = "call_guest_function"
    /\ last.fn = "KeepCPUBusy"
    /\ last.err = "ExecutionCanceledByHost"
    /\ last.was_running

\* a step of call_guest_function taken from the idle Loaded sandbox
CallStep ==
    Idle /\ \E fn \in FnNames : \E arg \in ArgsOf(fn) : call_guest_function(fn, arg)

\* C8 as stated: a kill requested while no call is in progress does not touch
\* the poisoned flag, the next call_guest_function fails with
\* ExecutionCanceledByHost, poisons the sandbox and consumes the kill, and a
\* call made with no kill pending is not cancelled
C8_LatchedKill_AnyCall ==
    [][ /\ (Idle /\ kill) => inner' = inner
        /\ (CallStep /\ cancel_requested)
           => /\ last'.op = "call_guest_function"
              /\ last'.err = "ExecutionCanceledByHost"
              /\ inner'.poisoned
              /\ ~cancel_requested'
        /\ (CallStep /\ ~cancel_requested /\ ~inner.poisoned)
           => call'.pc = "running" ]_vars

\* C8, restricted: the call that is cancelled by a latched kill is the next
\* call_guest_function made while the sandbox is not poisoned; it does not
\* run the guest, fails with ExecutionCanceledByHost, poisons the sandbox
\* and consumes the kill
C8_LatchedKill ==
    [][ /\ (Idle /\ kill) => inner' = inner
        /\ (CallStep /\ cancel_requested /\ ~inner.poisoned)
           => /\ last'.op = "call_guest_function"
              /\ last'.err = "ExecutionCanceledByHost"
              /\ inner'.poisoned
              /\ inner'.guest = inner.guest
              /\ call'.pc = "idle"
              /\ ~cancel_requested'
        /\ (CallStep /\ ~cancel_requested /\ ~inner.poisoned)
           => call'.pc = "running" ]_vars

C8_Witness ==
    /\ Idle
    /\ is_poisoned
    /\ ~cancel_requested
    /\ last.op = "call_guest_function"
    /\ last.err = "ExecutionCanceledByHost"
    /\ ~last.was_running
    /\ ~last.was_poisoned

\* a step of restore with a snapshot the caller holds
RestoreStep == Idle /\ \E s \in snaps \cup {ForeignSnapshot} : restore(s)

\* C9: a restore that succeeds leaves the guest state equal to the state
\* held by the snapshot, whatever calls were made in between, so every later
\* call has the outcomes it has on the captured state; the snapshots held
\* are not changed, and restoring the same snapshot again changes nothing
C9_RestoreRewinds ==
    [][ (RestoreStep /\ last'.status = "Ok")
        => /\ inner'.guest = last'.snap.guest
           /\ ~inner'.poisoned
           /\ \A fn \in FnNames : \A arg \in ArgsOf(fn) :
                 guest_dispatch_function(inner'.guest, fn, arg)
                     = guest_dispatch_function(last'.snap.guest, fn, arg)
           /\ snaps' = snaps
           /\ LoadedWasmSandbox_restore(inner', last'.snap).sb = inner' ]_vars

C9_Witness ==
    /\ Idle
    /\ last.op = "restore"
    /\ last.status = "Ok"
    /\ last.prev = "call_guest_function"
    /\ last.snap \in snaps
    /\ inner.guest = last.snap.guest
    /\ inner.guest.mem # 0

\* C10: a snapshot taken right after a successful restore of s is equal to s
C10_SnapshotIdempotent ==
    [][ (Idle /\ snapshot /\ last.op = "restore" /\ last.status = "Ok")
        => /\ last'.status = "Ok"
           /\ last'.snap = last.snap ]_vars

C10_Witness ==
    /\ Idle
    /\ last.op = "snapshot"
    /\ last.prev = "restore"
    /\ last.prev_status = "Ok"
    /\ last.status = "Ok"
    /\ last.snap \in snaps
    /\ last.snap.guest.mem # 0

\* a step of one of the three module-loading operations on any module
LoadStep ==
    \E m \in Modules :
        \/ load_module(m)
        \/ load_module_by_mapping(m)
        \/ load_module_from_buffer(m)

\* C11: a load operation that fails because the guest load entry point
\* reports an error leaves the caller with the Runtime sandbox
C11_FailedLoadKeepsRuntime ==
    [][ (phase = "Runtime" /\ LoadStep /\ last'.err = "GuestError")
        => phase' = "Runtime" ]_vars

\* C12: every Loaded sandbox has a module instantiated in its guest
C12_LoadedHasModule ==
    phase = "Loaded" => inner.guest.module \in ValidModules

\* the public operations the claim lists for each phase
ListedOps(ph) ==
    IF ph = "None" THEN {"build"}
    ELSE IF ph = "Proto" THEN {"register_host_function", "load_runtime"}
    ELSE IF ph = "Runtime"
    THEN {"load_module", "load_module_from_buffer", "load_module_by_mapping"}
    ELSE {"call_guest_function", "snapshot", "restore", "unload_module"}

\* every operation that completes in a step is one of ops(phase) or the drop
\* of the value, and a kill is only requested through a Loaded sandbox
OnlyOps(ops(_)) ==
    /\ last' # last => last'.op \in ops(phase) \cup {"drop"}
    /\ call' # call => phase = "Loaded" /\ phase' = "Loaded"
    /\ (cancel_requested' /\ ~cancel_requested) => phase = "Loaded"

\* C13 as stated: the operations that act on a sandbox in a phase are exactly
\* the ones listed for that phase
C13_PhaseOps_AsListed == [][OnlyOps(ListedOps)]_vars

\* the listed operations and load_from_snapshot, which WasmSandbox also offers
OfferedOps(ph) ==
    IF ph = "Runtime" THEN ListedOps(ph) \cup {"load_from_snapshot"}
    ELSE ListedOps(ph)

\* C13, with the Runtime list completed: the operations that act on a sandbox
\* in a phase are the listed ones and, in Runtime, load_from_snapshot
C13_PhaseOps == [][OnlyOps(OfferedOps)]_vars

C13_Witness ==
    /\ phase = "Loaded"
    /\ last.op = "load_from_snapshot"
    /\ last.prev = "unload_module"

\* C14: from load_runtime on, the host functions linked in the guest are
\* the ones in the registry, and no step of a Runtime or Loaded sandbox
\* changes either
C14_RegistrySealed ==
    [][ (phase \in {"Runtime", "Loaded"})
        => /\ inner.guest.linker = host_funcs
           /\ "HostPrint" \in host_funcs
           /\ (phase' \in {"Runtime", "Loaded"})
              => (host_funcs' = host_funcs /\ inner'.guest.linker = host_funcs)
      ]_vars

C14_Witness ==
    /\ phase = "Loaded"
    /\ last.op = "restore"
    /\ last.status = "Ok"
    /\ last.was_poisoned
    /\ "HostFuncWithBufferAndLength" \in host_funcs
    /\ inner.guest.linker = host_funcs

\* C15: load_runtime fails and yields no Runtime when InitWasmRuntime fails;
\* when it succeeds the snapshot the Runtime keeps is the state right after
\* InitWasmRuntime: engine and linker set, no module instantiated
C15_RuntimeSnapshotAfterInit ==
    [][ (phase = "Proto" /\ load_runtime)
        => IF init_wasm_runtime(inner.guest, host_funcs).res = "Ok"
           THEN /\ phase' = "Runtime"
                /\ last'.status = "Ok"
                /\ inner'.guest = init_wasm_runtime(inner.guest, host_funcs).guest
                /\ runtime_snapshot'.sid = "this"
                /\ runtime_snapshot'.guest = inner'.guest
                /\ runtime_snapshot'.guest.engine
                /\ runtime_snapshot'.guest.linker = host_funcs
                /\ runtime_snapshot'.guest.module = "none"
           ELSE /\ phase' = "None"
                /\ last'.status = "Err" ]_vars

C15_Witness ==
    /\ phase = "Runtime"
    /\ last.op = "load_runtime"
    /\ last.status = "Ok"
    /\ runtime_snapshot.guest.engine
    /\ "HostFuncWithBufferAndLength" \in runtime_snapshot.guest.linker

C18_EchoRoundTrip ==
    (d_pc = "host" /\ fc.function_name = "Echo")
        => /\ ret.res = "Ok"
           /\ ret.ret.tag = fc.parameters[1].tag
           /\ ret.ret.v = fc.parameters[1].v

\* C19: a Bool crosses the boundary as an i32, false as 0 and true as 1, in
\* every direction: a parameter of a guest function and the return value of a
\* host function go out as 1 or 0, and a guest-supplied 1 reaches the host
\* function as true, a 0 as false
C19_BoolZeroOne ==
    /\ \A b \in BOOLEAN :
          hl_param_to_val(EmptyHeap, Tagged("Bool", b)).val = I32(IF b THEN 1 ELSE 0)
    /\ (hc_pc = "done" /\ hc_out.res = "Ok")
          => /\ (hc_out.rv.tag = "Bool")
                   => (hc_out.rs = <<I32(IF hc_out.rv.v THEN 1 ELSE 0)>>)
             /\ \A i \in 1..Len(hc_def.parameter_types) :
                   (hc_def.parameter_types[i] = "Bool" /\ hc_ps[i].v \in {0, 1})
                       => (hc_out.params[i] = Tagged("Bool", hc_ps[i].v = 1))

\* every String and VecBytes argument of the host call points at memory that
\* can be read
HostCallReadsOk ==
    \A k \in 1..Len(hc_def.parameter_types) :
        /\ (hc_def.parameter_types[k] = "String")
              => (read_cstr(heap, hc_ps[k].v).res = "Ok")
        /\ (hc_def.parameter_types[k] = "VecBytes" /\ k < Len(hc_ps))
              => (read(heap, hc_ps[k].v, hc_ps[k + 1].v).res = "Ok")

VecFollowedByInt(pts) ==
    \A i \in 1..Len(pts) :
        (pts[i] = "VecBytes") => (i < Len(pts) /\ pts[i + 1] = "Int")

\* C21: on a Proto sandbox, registering a host function whose parameter list
\* has a VecBytes not immediately followed by an Int fails and leaves the
\* registry without it; a correctly shaped one is accepted and registered
C21_MalformedRegistrationRefused ==
    (phase = "Proto" /\ last.op = "register_host_function")
        => IF VecFollowedByInt(HostFunctionDefinition(last.fn).parameter_types)
           THEN last.status = "Ok" /\ last.fn \in host_funcs
           ELSE last.status = "Err" /\ last.fn \notin host_funcs

\* C22: a marshalling error in a host call made during a guest call ends the
\* call with an error that leaves the sandbox healthy: the guest does not
\* abort, so nothing poisons the sandbox
C22_MarshallingErrorKeepsHealthy ==
    (hc_pc = "done") => (hc_out.res \notin PoisonErrors)

\* C23: a load of a module with an import that was never registered fails
\* with an error naming the import, produces no Loaded sandbox and leaves the
\* guest's module, store and instance slots unset.
C23_MissingImportFailsLoad ==
    (last.op = load_trace.op /\ load_trace.missing # {})
        => /\ phase # "Loaded"
           /\ last.status = "Err" /\ last.err = "GuestError"
           /\ load_trace.missing \subseteq Imports(load_trace.fn)
           /\ load_trace.module = "none"

\* C24: whatever one sandbox does, on whichever thread, the other sandbox's
\* guest memory, poisoned flag, host-function registry and snapshots stay as
\* they are, the step is one the sandbox could take on its own, and moving a
\* sandbox to another thread changes nothing of its state.
C24_ParallelIsolation ==
    [][ /\ (other' # other) => (other' = ThisSandbox /\ ThisSandbox' = other)
        /\ (other' = other /\ thread' = thread) => OwnStep
        /\ (thread' # thread /\ other' = other) => UNCHANGED svars
      ]_vars

\* one sandbox is poisoned by an abort on one thread while the other, on
\* another thread, is Loaded, healthy and holds its runtime snapshot
C24_Witness ==
    /\ phase = "Loaded" /\ inner.poisoned
    /\ other.phase = "Loaded" /\ ~other.inner.poisoned
    /\ other.runtime_snapshot.sid = "this"
    /\ other.inner.guest.mem # inner.guest.mem
    /\ thread # other.thread
    /\ last.op = "call_guest_function"

\* C25 as stated: every load operation invokes exactly one guest load entry
\* point, LoadWasmModulePhys exactly when the mapping succeeded and
\* LoadWasmModule exactly when it failed.
C25_ExactlyOneEntrypoint ==
    (load_trace.op # "none")
        => /\ Len(load_trace.entries) = 1
           /\ (load_trace.entries[1] = "LoadWasmModulePhys")
                  <=> (load_trace.path = "mapped")

\* C25 amended: every load operation invokes at most one guest load entry
\* point, and exactly one when the guest call is entered; it is
\* LoadWasmModulePhys exactly when the mapping succeeded and LoadWasmModule
\* exactly when the mapping failed and the bytes could be read; none is
\* invoked when the file can be neither mapped nor read or when the call is
\* refused at entry; load_module_from_buffer never maps and never invokes
\* LoadWasmModulePhys.
C25_AtMostOneEntrypoint ==
    (load_trace.op # "none")
        => /\ Len(load_trace.entries) <= 1
           /\ load_trace.entered <=> (Len(load_trace.entries) = 1)
           /\ load_trace.entered
                 => /\ (load_trace.entries[1] = "LoadWasmModulePhys")
                          <=> (load_trace.path = "mapped")
                    /\ (load_trace.entries[1] = "LoadWasmModule")
                          <=> (load_trace.path = "copied")
           /\ (load_trace.path = "unreadable") => ~load_trace.entered
           /\ (load_trace.op = "load_module_from_buffer")
                 => load_trace.maps = 0 /\ load_trace.path = "copied"
           /\ (load_trace.path = "mapped" /\ load_trace.op # "load_module_from_buffer")
                 => load_trace.maps = 1

\* a load_module whose mapping failed read the file and called LoadWasmModule
C25_Witness ==
    /\ load_trace.op = "load_module" /\ load_trace.path = "copied"
    /\ load_trace.entries = <<"LoadWasmModule">>
    /\ phase = "Loaded"

\* C26: each of the input buffer, stack and heap sizes equals the larger of
\* its floor and the value last passed to its setter, the floor when the
\* setter was never called.
C26_SizesClampedToFloor ==
    /\ config.input = IF passed.input > 196608 THEN passed.input ELSE 196608
    /\ config.stack = IF passed.stack > 65536 THEN passed.stack ELSE 65536
    /\ config.heap = IF passed.heap > 1048576 THEN passed.heap ELSE 1048576

\* C27: each gauge equals the number of live sandboxes of its phase and is
\* never negative.
C27_GaugesCountLiveSandboxes ==
    \A ph \in {"Proto", "Runtime", "Loaded"} :
        /\ gauge[ph] = (IF phase = ph THEN 1 ELSE 0)
                        + (IF other.phase = ph THEN 1 ELSE 0)
        /\ gauge[ph] >= 0

\* a load failed and consumed a Runtime sandbox while the other sandbox is
\* still in the Runtime phase
C27_Witness ==
    /\ last.op = "load_module" /\ last.status = "Err" /\ phase = "None"
    /\ other.phase = "Runtime"
    /\ gauge = [Proto |-> 0, Runtime |-> 1, Loaded |-> 0]

\* C28: a page fault is serviced (one zero-filled page mapped at the
\* page-aligned address, the fault reported handled) exactly when the page
\* was not present and the address is at or above the start of the engine's
\* window; every other fault is reported unhandled and changes no mapping.
C28_PageFaultServicedIff ==
    [][ (pf'.seen /\ (pf' # pf \/ page_table' # page_table))
        => IF pf'.error_code % 2 = 0 /\ pf'.addr >= Pow2(StrideBits)
           THEN /\ pf'.handled
                /\ page_table'
                     = page_table
                        \cup {[base |-> pf'.addr - (pf'.addr % Pow2(PageBits)),
                               data |-> "zero"]}
                /\ Cardinality(page_table') = Cardinality(page_table) + 1
           ELSE /\ ~pf'.handled
                /\ page_table' = page_table
      ]_vars

\* a not-present fault in the middle of a page of the window was serviced
\* while another page of the window holds data
C28_Witness ==
    /\ pf.seen /\ pf.handled /\ pf.addr % Pow2(PageBits) # 0
    /\ [base |-> pf.addr - (pf.addr % Pow2(PageBits)), data |-> "zero"]
          \in page_table
    /\ \E e \in page_table : e.data = "written"

\* C29: the bases returned by wasmtime_mmap_new start at the allocator's
\* base and rise by one stride per call, the ranges are pairwise disjoint
\* and none of them contains the module image; unmapping and remapping
\* free nothing.
C29_MmapRangesDisjoint ==
    /\ \A i \in 1..Len(regions) :
          /\ regions[i] = Pow2(StrideBits) + (i - 1) * Pow2(StrideBits)
          /\ ~(regions[i] <= Pow2(ImageBits)
                 /\ Pow2(ImageBits) < regions[i] + Pow2(StrideBits))
    /\ \A i, j \in 1..Len(regions) : (i # j) => (regions[i] # regions[j])

\* C30: a load operation on a Runtime sandbox that came from unload_module
\* runs the guest load entry point on the restored runtime snapshot: the
\* guest state of the resulting Loaded sandbox is that of loading the module
\* into the runtime snapshot, with nothing left of the module before
C30_LoadAfterUnloadRestores ==
    [][ (phase = "Runtime" /\ needs_restore /\ LoadStep /\ phase' = "Loaded")
        => (inner'.guest
              = load_wasm_module(runtime_snapshot.guest, inner'.guest.module).guest)
      ]_vars


\* C31: an operation whose snapshot restore failed returns an error and hands
\* out no Loaded sandbox.
C31_FailedRestoreFailsLoad ==
    (last.op = "load_from_snapshot" /\ last.snap.sid # "this")
        => (last.status = "Err" /\ phase # "Loaded")

\* C32: every pointer the dispatch hands to the module's free export was
\* returned by the instance now loaded, in the preceding call of the same
\* guest state; none was recorded under an instance that has been replaced.
C32_FreedPointersAreOwn ==
    [][ (call.pc = "running" /\ call'.pc = "idle" /\ ~cancel_requested
         /\ inner.guest.module # "none")
        => \A i \in 1..Len(inner.guest.allocs) : inner.guest.allocs[i] = "own"
      ]_vars

\* C33: hostfunc_type accepts a parameter list exactly when every VecBytes in
\* it is immediately followed by an Int.
C33_AcceptsIffVecFollowedByInt ==
    (ht_pc \in {"linked", "refused", "returned"})
        => ((ht_type.res = "Ok") <=> VecFollowedByInt(ht_def.parameter_types))

\* C34: for an accepted definition the engine value hl_return_to_val produces
\* has the value type hostfunc_type declared as the function's result.
C34_ReturnMatchesDeclaredType ==
    (ht_pc = "returned" /\ ht_val.res = "Ok")
        => (ht_type.results = <<ht_val.val.t>>)

\* C35: the module, store and instance slots are all unset or all set, they
\* are set only when engine and linker are set, and a load entry that fails
\* leaves all three as they were.
C35_SlotsSetTogether ==
    /\ \/ slots.module = "none" /\ slots.store = "none" /\ slots.instance = "none"
       \/ slots.module # "none" /\ slots.store # "none" /\ slots.instance # "none"
    /\ (slots.module # "none") => (slots.engine /\ slots.linker_set)
    /\ (slot_last.op \in {"LoadWasmModule", "LoadWasmModulePhys"}
          /\ slot_last.res # "Ok")
         => /\ slots.module = slot_last.before.module
            /\ slots.store = slot_last.before.store
            /\ slots.instance = slot_last.before.instance

\* a load of a module with an unresolved import failed on a guest that holds
\* another module, which is still in all three slots
C35_Witness ==
    /\ slot_last.op = "LoadWasmModule" /\ slot_last.res = "GuestError"
    /\ slot_last.before.module = "RunWasm"
    /\ slots.module = "RunWasm" /\ slots.store = "RunWasm"
    /\ slots.instance = "RunWasm"

\* C36: no guest entry blocks on a guest spin mutex: whenever the guest is
\* entered, by a call or by a load, every lock is free, also after a call
\* was cancelled or aborted while it held them, and no snapshot holds a
\* guest with a lock taken.
C36_NoEntryBlocks ==
    [][ /\ (call.pc = "idle" /\ call'.pc # "idle")
            => (~inner.guest.locked /\ call'.pc = "running")
        /\ last'.err # "Blocked"
        /\ \A s \in snaps' \cup {runtime_snapshot'} : ~s.guest.locked ]_vars

\* a call ended abnormally with its locks held, the sandbox was restored,
\* and the guest is running the next call
C36_Witness ==
    /\ call.pc = "running"
    /\ inner.guest.locked
    /\ last.op = "restore" /\ last.status = "Ok" /\ last.was_poisoned
    /\ last.prev = "call_guest_function" /\ last.prev_status = "Err"

\* C37: the unload counter never exceeds the load counter, and the load
\* counter equals the number of Loaded sandboxes ever created from a Runtime.
C37_LoadsCountLoaded ==
    /\ counters.unloads <= counters.loads
    /\ counters.loads = counters.loaded_total

\* C38: every page the page-fault handler has mapped lies inside a range
\* that wasmtime_mmap_new handed out before.
C38_MappedPagesAllocated ==
    \A e \in page_table :
       \E i \in 1..Len(regions) :
          regions[i] <= e.base /\ e.base < regions[i] + Pow2(StrideBits)

\* C39: after with_guest_error_buffer_size(v) the configured guest error
\* buffer size is the larger of MIN_GUEST_ERROR_BUFFER_SIZE and v.
C39_ErrorBufferIsMax ==
    (passed.error # 0)
        => config.error = IF passed.error > 1024 THEN passed.error ELSE 1024

\* C40: the trap handler redirects exactly when the exception is #UD and a
\* handler is registered: the saved rip becomes the handler, the original
\* rip and frame pointer go to the first two argument registers, the next
\* two are zeroed and every other register keeps its value; in every other
\* case it reports unhandled and the frame is unchanged.
C40_TrapRedirectsOnUD ==
    trap_last.seen
        => IF trap_last.exception_number = 6 /\ trap_last.requested_handler # 0
           THEN /\ trap_last.handled
                /\ trap.frame.rip = trap_last.requested_handler
                /\ trap.frame.gprs[9] = trap_last.before.rip
                /\ trap.frame.gprs[10] = trap_last.before.gprs[8]
                /\ trap.frame.gprs[11] = 0
                /\ trap.frame.gprs[12] = 0
                /\ \A i \in (0..14) \ {9, 10, 11, 12} :
                      trap.frame.gprs[i] = trap_last.before.gprs[i]
           ELSE /\ ~trap_last.handled
                /\ trap.frame = trap_last.before

\* a #UD was redirected to the registered handler from a guest frame
C40_Witness ==
    /\ trap_last.seen /\ trap_last.handled
    /\ trap_last.exception_number = 6
    /\ trap_last.before.rip = 40
    /\ trap.frame.rip = 70
    /\ trap.frame.gprs[9] = 40

====
